---- MODULE Spec2Model ----
(***************************************************************************)
(* Horizontal visibility graphs: the streaming builder dt_hvg.HVG with its *)
(* ChainMap-backed merge, the linear stack algorithm linear_hvg.batch_hvg  *)
(* with its batch merge, and the divide-and-conquer algorithm dc_hvg.hvg.  *)
(*                                                                         *)
(* Python indices and labels are 0-based; a TLA+ sequence X holds the      *)
(* Python value X[i] at position i+1.                                      *)
(***************************************************************************)
EXTENDS Integers, Sequences, FiniteSets, TLC

\* ---------------------------------------------------------------- bounds
MaxVal == 3
MaxAdds == 3
MaxMerges == 2
MaxLen == 4
MaxPieces == 3
MaxUnits == 3
MaxRuns == 2

\* np.inf and -np.inf: numbers beyond every value and weight of the model
Inf == 1000
NegInf == -1000

\* tries_remaining = 10 in generate_time_series
TriesRemaining == 10

\* self.finite_lower_bound = -1e6 in linear_hvg.HVG
FiniteLowerBound == -1000000

Vals == 1..MaxVal
\* neighbour_weight values a builder is configured with: the default and a
\* finite one that a height difference can equal
NWs == {Inf, 1}

\* the builders the driver constructs, and the names it binds merge results to
Base == {"a", "b", "e"}
Slots == {"s", "t"}
Obj == Base \cup Slots

VARIABLES hv, VL, EL, fed, origin, used, nadd, nmerge, err, unbound, lastOp,
          calls,
          bX, bOut, dcOut, pieces, acc, accN, hvgOut

\* the experiment harnesses (run_experiment.py, experiments_01.py,
\* experiment_utils.py)
VARIABLES cfg, phase, genRes, genDone, genK, ts, diag, timRes, timDone, timK,
          hdr, rows, results, snapshot, herr

hvars == <<cfg, phase, genRes, genDone, genK, ts, diag, timRes, timDone, timK,
           hdr, rows, results, snapshot, herr>>

\* the binary search tree encodings (bst_hvg.py, binary_hvg.py)
VARIABLES tX, bstOut, binOut, tPieces, tAcc, tAccN, tList, hvgs, merged,
          mergedN

tvars == <<tX, bstOut, binOut, tPieces, tAcc, tAccN, tList, hvgs, merged,
           mergedN>>

\* the scripts merge_experiment3_ipp.py and run_exp01.py
VARIABLES iUnits, iPhase, iRes, iPos, iDead, iCount, iIters, iHdr, iRows,
          xLinked, xFile, xRuns, xErr

svars == <<iUnits, iPhase, iRes, iPos, iDead, iCount, iIters, iHdr, iRows,
           xLinked, xFile, xRuns, xErr>>

\* the streaming object linear_hvg.HVG
VARIABLES selfX, selfE, selfVisP, selfVisF, selfMaxVal, selfRead

ovars == <<selfX, selfE, selfVisP, selfVisF, selfMaxVal, selfRead>>

dtvars == <<hv, VL, EL, fed, origin, used, nadd, nmerge, err, unbound, lastOp,
            calls>>
linvars == <<bX, bOut, dcOut, pieces, acc, accN, hvgOut>>
vars == <<hv, VL, EL, fed, origin, used, nadd, nmerge, err, unbound, lastOp,
          calls,
          bX, bOut, dcOut, pieces, acc, accN, hvgOut,
          cfg, phase, genRes, genDone, genK, ts, diag, timRes, timDone, timK,
          hdr, rows, results, snapshot, herr,
          tX, bstOut, binOut, tPieces, tAcc, tAccN, tList, hvgs, merged, mergedN,
          iUnits, iPhase, iRes, iPos, iDead, iCount, iIters, iHdr, iRows,
          xLinked, xFile, xRuns, xErr,
          selfX, selfE, selfVisP, selfVisF, selfMaxVal, selfRead>>

\* no linear_hvg.HVG object is in use
InitObjIdle ==
  /\ selfX = <<>>
  /\ selfE = <<>>
  /\ selfVisP = <<>>
  /\ selfVisF = <<>>
  /\ selfMaxVal = NegInf
  /\ selfRead = <<>>

\* no script is running
InitScriptsIdle ==
  /\ iUnits = <<>>
  /\ iPhase = "idle"
  /\ iRes = <<>>
  /\ iPos = 0
  /\ iDead = FALSE
  /\ iCount = 0
  /\ iIters = 0
  /\ iHdr = 0
  /\ iRows = <<>>
  /\ xLinked = FALSE
  /\ xFile = <<>>
  /\ xRuns = 0
  /\ xErr = "none"

\* no tree is being built
InitTreeIdle ==
  /\ tX = <<>>
  /\ bstOut = <<>>
  /\ binOut = <<>>
  /\ tPieces = <<>>
  /\ tAcc = <<>>
  /\ tAccN = 0
  /\ tList = <<>>
  /\ hvgs = <<>>
  /\ merged = <<>>
  /\ mergedN = 0

\* no experiment harness is running
InitHarnessIdle ==
  /\ cfg = [prog |-> "", nAlg |-> 0, nSrc |-> 0, srcRaises |-> {}, algFails |-> {}]
  /\ phase = "idle"
  /\ genRes = <<>>
  /\ genDone = <<>>
  /\ genK = 0
  /\ ts = <<>>
  /\ diag = <<>>
  /\ timRes = <<>>
  /\ timDone = <<>>
  /\ timK = 0
  /\ hdr = 0
  /\ rows = <<>>
  /\ results = <<>>
  /\ snapshot = 0
  /\ herr = "none"

Min(x, y) == IF x <= y THEN x ELSE y
Max(x, y) == IF x >= y THEN x ELSE y
Last(s) == s[Len(s)]
Front(s) == SubSeq(s, 1, Len(s) - 1)

\* ------------------------------------------------------------------------
\* Ground truth (spec section 3): positions i<j (0-based) of X see each other
\* iff every value strictly between them is strictly below both.
\* ------------------------------------------------------------------------
Visible(X, i, j) ==
  /\ i < j
  /\ \A k \in (i + 1)..(j - 1) : X[k + 1] < Min(X[i + 1], X[j + 1])

VisiblePairs(X) ==
  {p \in (0..(Len(X) - 1)) \X (0..(Len(X) - 1)) : Visible(X, p[1], p[2])}

\* ------------------------------------------------------------------------
\* dict and collections.ChainMap.  A dict is a function; a store is the heap
\* of dicts, addressed by index.  A ChainMap is the list of the dicts it
\* reads through, first hit wins; a nested ChainMap is kept flattened, which
\* reads and writes the same dicts in the same order.
\* ------------------------------------------------------------------------
EmptyDict == [k \in {} |-> 0]

Put(d, k, w) == [x \in (DOMAIN d) \cup {k} |-> IF x = k THEN w ELSE d[x]]

ChainKeys(store, maps) == UNION {DOMAIN store[maps[i]] : i \in 1..Len(maps)}

ChainGet(store, maps, k) ==
  LET i == CHOOSE n \in 1..Len(maps) :
             /\ k \in DOMAIN store[maps[n]]
             /\ \A m \in 1..(n - 1) : k \notin DOMAIN store[maps[m]]
  IN store[maps[i]][k]

\* ChainMap.__setitem__ writes to maps[0]
ChainSet(store, maps, k, w) == [store EXCEPT ![maps[1]] = Put(@, k, w)]

\* ChainMap.new_child(m): m is put in front of the maps
NewChild(maps, m) == m \o maps

\* the dict a ChainMap reads as
ChainDict(store, maps) ==
  [k \in ChainKeys(store, maps) |-> ChainGet(store, maps, k)]

\* ------------------------------------------------------------------------
\* dt_hvg.HVG.add_one
\* ------------------------------------------------------------------------
\* the new value vx blocks the value ux on top of vis_f
BlocksStrict(ux, vx) == ux < vx
BlocksReversed(ux, vx) == ux >= vx
Blocks(ux, vx) == ux <= vx

\* weight of the edge written in one loop iteration; lo is ux in the
\* blocking branch and vx in the other, h holds the local h once assigned
WeightNoSentinel(neighbour_added, lo, h, nw) ==
  IF neighbour_added THEN lo - h[1] ELSE lo
WeightFromZero(neighbour_added, lo, h, nw) ==
  IF neighbour_added THEN lo ELSE nw
Weight(neighbour_added, lo, h, nw) ==
  IF neighbour_added THEN lo - h[1] ELSE nw

\* the while loop: returns the remaining vis_f, the writes E[u,v] = w in
\* order, and whether h was read before any assignment (UnboundLocalError)
RECURSIVE Scan(_, _, _, _, _, _, _)
Scan(vis_f, vx, v, nw, neighbour_added, h, writes) ==
  IF vis_f = <<>>
  THEN [vis_f |-> vis_f, writes |-> writes, unbound |-> FALSE]
  ELSE
    LET ux == Last(vis_f)[1]
        u == Last(vis_f)[2]
    IN IF neighbour_added /\ h = <<>>
       THEN [vis_f |-> vis_f, writes |-> writes, unbound |-> TRUE]
       ELSE IF Blocks(ux, vx)
         THEN LET w2 == Append(writes, <<u, v, Weight(neighbour_added, ux, h, nw)>>)
              IN IF ux = vx
                 THEN [vis_f |-> Front(vis_f), writes |-> w2, unbound |-> FALSE]
                 ELSE Scan(Front(vis_f), vx, v, nw, TRUE, <<ux>>, w2)
         ELSE [vis_f |-> vis_f,
               writes |-> Append(writes, <<u, v, Weight(neighbour_added, vx, h, nw)>>),
               unbound |-> FALSE]

\* add_one on the fields that are not mappings: c = [vis_p, vis_f, max_val, nw]
AddOneCorePushesTwice(c, vx, v) ==
  LET isMax == vx > c.max_val
      sc == Scan(c.vis_f, vx, v, c.nw, FALSE, <<>>, <<>>)
  IN [vis_p |-> IF isMax THEN Append(c.vis_p, <<vx, v>>) ELSE c.vis_p,
      max_val |-> IF isMax THEN vx ELSE c.max_val,
      vis_f |-> Append(Append(sc.vis_f, <<vx, v>>), <<vx, v>>),
      nw |-> c.nw,
      writes |-> sc.writes,
      unbound |-> sc.unbound]
AddOneCore(c, vx, v) ==
  LET isMax == vx > c.max_val
      sc == Scan(c.vis_f, vx, v, c.nw, FALSE, <<>>, <<>>)
  IN [vis_p |-> IF isMax THEN Append(c.vis_p, <<vx, v>>) ELSE c.vis_p,
      max_val |-> IF isMax THEN vx ELSE c.max_val,
      vis_f |-> Append(sc.vis_f, <<vx, v>>),
      nw |-> c.nw,
      writes |-> sc.writes,
      unbound |-> sc.unbound]

RECURSIVE ApplyWrites(_, _)
ApplyWrites(d, writes) ==
  IF writes = <<>> THEN d
  ELSE ApplyWrites(Put(d, <<writes[1][1], writes[1][2]>>, writes[1][3]), Tail(writes))

\* HVG(neighbour_weight=nw), before any value
NewHVG(nw) ==
  [vis_p |-> <<>>, vis_f |-> <<>>, max_val |-> NegInf, nw |-> nw]

\* HVG(nw).add_batch(values, labels) on a builder of its own: pairs is the
\* list of (vx, v); the result carries the edge dict E it ends with
RECURSIVE AddBatchFresh(_, _, _)
AddBatchFresh(c, E, pairs) ==
  IF pairs = <<>> THEN [core |-> c, E |-> E]
  ELSE LET r == AddOneCore(c, pairs[1][1], pairs[1][2])
       IN AddBatchFresh([vis_p |-> r.vis_p, vis_f |-> r.vis_f,
                         max_val |-> r.max_val, nw |-> r.nw],
                        ApplyWrites(E, r.writes), Tail(pairs))

\* ------------------------------------------------------------------------
\* dt_hvg.HVG.merge
\* ------------------------------------------------------------------------
\* the assertion that opens merge
NwAny(l, r) == TRUE
NwCompatible(l, r) == l.nw = r.nw

\* the possibly-visible values of both sides, as (vx, v) pairs
JoinVtx(l, r) == l.vis_f \o r.vis_p

\* join_hvg = HVG(); join_hvg.add_batch(vtx_vals, vtx_labels)
JoinHvg(l, r) == AddBatchFresh(NewHVG(Inf), EmptyDict, JoinVtx(l, r))

\* merge_edges: the boundary pair first, then every edge of join_hvg whose
\* weight differs from self.neighbour_weight
MergeEdges(l, r) ==
  LET J == JoinHvg(l, r).E
      boundary == <<Last(l.vis_f)[2], r.vis_p[1][2]>>
      kept == {k \in DOMAIN J : J[k] # l.nw}
  IN [k \in kept \cup {boundary} |-> IF k \in kept THEN J[k] ELSE l.nw]

\* entries of other.vis_p, read from the end, up to the first one that does
\* not exceed self.max_val
RECURSIVE TakeAboveFromEnd(_, _)
TakeAboveFromEnd(vp, m) ==
  IF vp = <<>> THEN <<>>
  ELSE IF Last(vp)[1] > m
       THEN Append(TakeAboveFromEnd(Front(vp), m), Last(vp))
       ELSE <<>>

MergeVisPKeepAll(l, r) == l.vis_p \o r.vis_p
MergeVisP(l, r) == l.vis_p \o TakeAboveFromEnd(r.vis_p, l.max_val)

\* entries of self.vis_f, read from the start, up to the first one that does
\* not exceed other.max_val
RECURSIVE TakeAboveFromStartGe(_, _)
TakeAboveFromStartGe(vf, m) ==
  IF vf = <<>> THEN <<>>
  ELSE IF vf[1][1] >= m
       THEN <<vf[1]>> \o TakeAboveFromStartGe(Tail(vf), m)
       ELSE <<>>

RECURSIVE TakeAboveFromStart(_, _)
TakeAboveFromStart(vf, m) ==
  IF vf = <<>> THEN <<>>
  ELSE IF vf[1][1] > m
       THEN <<vf[1]>> \o TakeAboveFromStart(Tail(vf), m)
       ELSE <<>>

MergeVisFKeepAll(l, r) == l.vis_f \o r.vis_f
MergeVisF(l, r) == TakeAboveFromStart(l.vis_f, r.max_val) \o r.vis_f

\* the exception merge raises after its assertion, "none" when it returns:
\* zip(*[]) cannot be unpacked, and [-1] / [0] of an empty list fail
MergeError(l, r) ==
  IF JoinVtx(l, r) = <<>> THEN "ValueError"
  ELSE IF l.vis_f = <<>> \/ r.vis_p = <<>> THEN "IndexError"
  ELSE "none"

\* ------------------------------------------------------------------------
\* linear_hvg.batch_hvg.  vis_p and vis_f hold (vertex, height) pairs; the
\* height -np.inf is NegInf.
\* ------------------------------------------------------------------------
RECURSIVE SeqMin(_)
SeqMin(X) == IF Len(X) = 1 THEN X[1] ELSE Min(X[1], SeqMin(Tail(X)))

RECURSIVE SeqMax(_)
SeqMax(X) == IF Len(X) = 1 THEN X[1] ELSE Max(X[1], SeqMax(Tail(X)))

\* X + c for an array X
Shift(X, c) == [i \in 1..Len(X) |-> X[i] + c]

\* the value at v is greater than or equal to the value at u
LinBlocksStrict(xu, xv) == xu < xv
LinBlocks(xu, xv) == xu <= xv

\* the baseline used for a vertex nothing has partially blocked yet
Baseline(bottom) == IF bottom = NegInf THEN 0 ELSE bottom

\* the while loop of batch_hvg for the new vertex v
RECURSIVE LinScan(_, _, _, _)
LinScan(X, v, vis_f, E) ==
  IF Len(vis_f) = 0 THEN [vis_f |-> vis_f, E |-> E]
  ELSE
    LET u == Last(vis_f)[1]
        bottom == Baseline(Last(vis_f)[2])
    IN IF LinBlocks(X[u + 1], X[v + 1])
       THEN LET E2 == Append(E, <<u, v, X[u + 1] - bottom>>)
            IN IF X[u + 1] = X[v + 1]
               THEN [vis_f |-> Front(vis_f), E |-> E2]
               ELSE LinScan(X, v, Front(vis_f), E2)
       ELSE [vis_f |-> Append(Front(vis_f), <<u, X[v + 1]>>),
             E |-> Append(E, <<u, v, X[v + 1] - bottom>>)]

\* the for loop of batch_hvg from vertex v on
RECURSIVE BatchLoop(_, _, _)
BatchLoop(X, v, st) ==
  IF v >= Len(X) THEN st
  ELSE
    LET isMax == X[v + 1] > st.max_val
        sc == LinScan(X, v, st.vis_f, st.E)
    IN BatchLoop(X, v + 1,
         [E |-> sc.E,
          vis_p |-> IF isMax THEN Append(st.vis_p, <<v, st.max_val>>) ELSE st.vis_p,
          vis_f |-> Append(sc.vis_f, <<v, NegInf>>),
          max_val |-> IF isMax THEN X[v + 1] ELSE st.max_val])

\* batch_hvg(X0): (V, E), (vis_p, vis_f), X, translate; V = xrange(n) is
\* kept as n.  np.min of an empty array raises ValueError.
BatchHvg(X0) ==
  IF X0 = <<>>
  THEN [err |-> "ValueError", V |-> 0, E |-> <<>>, vis_p |-> <<>>, vis_f |-> <<>>,
        X |-> <<>>, translate |-> 0]
  ELSE
    LET translate == 1 - SeqMin(X0)
        X == Shift(X0, translate)
        st == BatchLoop(X, 0, [E |-> <<>>, vis_p |-> <<>>, vis_f |-> <<>>,
                               max_val |-> NegInf])
    IN [err |-> "none", V |-> Len(X), E |-> st.E, vis_p |-> st.vis_p,
        vis_f |-> st.vis_f, X |-> X, translate |-> translate]

\* the tuple batch_hvg returns
BatchReturn(r) == <<<<r.V, r.E>>, <<r.vis_p, r.vis_f>>, r.X, r.translate>>

\* hvg(X, include_weights): the tuple of batch_hvg is unpacked into three
\* targets, which raises ValueError unless it has three items
LinHvg(X0, include_weights) ==
  LET r == BatchHvg(X0)
      t == BatchReturn(r)
  IN IF r.err # "none" THEN [err |-> r.err, V |-> 0, E |-> <<>>]
     ELSE IF Len(t) # 3 THEN [err |-> "ValueError", V |-> 0, E |-> <<>>]
     ELSE [err |-> "none", V |-> t[1][1],
           E |-> IF include_weights THEN t[1][2]
                 ELSE [i \in 1..Len(t[1][2]) |-> <<t[1][2][i][1], t[1][2][i][2]>>]]

\* ------------------------------------------------------------------------
\* linear_hvg.merge
\* ------------------------------------------------------------------------
\* (v + L1, val) for every boundary record, and the same for edges
Relabel(vis, L1) == [i \in 1..Len(vis) |-> <<vis[i][1] + L1, vis[i][2]>>]
RelabelEdges(E, L1) == [i \in 1..Len(E) |-> <<E[i][1] + L1, E[i][2] + L1, E[i][3]>>]

\* (v, val + align) for every boundary record; -np.inf + align is -np.inf
Align(vis, align) ==
  [i \in 1..Len(vis) |->
     <<vis[i][1], IF vis[i][2] = NegInf THEN NegInf ELSE vis[i][2] + align>>]

\* X1[u] <= X2[v-L1]
LinMergeBlocksStrict(xu, xv) == xu < xv
LinMergeBlocks(xu, xv) == xu <= xv

\* the while loop of merge for the past-facing vertex v of the second batch,
\* whose value is xv
RECURSIVE MergeScan(_, _, _, _, _)
MergeScan(X1, v, xv, vis_f1, E_merge) ==
  IF Len(vis_f1) = 0 THEN [vis_f1 |-> vis_f1, E_merge |-> E_merge]
  ELSE
    LET u == Last(vis_f1)[1]
        bottom == Baseline(Last(vis_f1)[2])
    IN IF LinMergeBlocks(X1[u + 1], xv)
       THEN LET E2 == Append(E_merge, <<u, v, X1[u + 1] - bottom>>)
            IN IF X1[u + 1] = xv
               THEN [vis_f1 |-> Front(vis_f1), E_merge |-> E2]
               ELSE MergeScan(X1, v, xv, Front(vis_f1), E2)
       ELSE [vis_f1 |-> Append(Front(vis_f1), <<u, xv>>),
             E_merge |-> Append(E_merge, <<u, v, xv - bottom>>)]

\* the for loop of merge over vis_p2 from its i-th record on
RECURSIVE MergeLoop(_, _, _, _, _, _)
MergeLoop(X1, X2, L1, vis_p2, i, st) ==
  IF i > Len(vis_p2) THEN st
  ELSE
    LET v == vis_p2[i][1]
        xv == X2[v - L1 + 1]
        isMax == xv > st.max_val
        sc == MergeScan(X1, v, xv, st.vis_f1, st.E_merge)
    IN MergeLoop(X1, X2, L1, vis_p2, i + 1,
         [vis_p |-> IF isMax THEN Append(st.vis_p, <<v, st.max_val>>) ELSE st.vis_p,
          max_val |-> IF isMax THEN xv ELSE st.max_val,
          vis_f1 |-> sc.vis_f1,
          E_merge |-> sc.E_merge])

\* merge(hvg_1, hvg_2), the tuple it returns
LinMerge(h1, h2) ==
  LET L1 == h1.V
      L2 == h2.V
      E2 == RelabelEdges(h2.E, L1)
      vis_p2r == Relabel(h2.vis_p, L1)
      vis_f2r == Relabel(h2.vis_f, L1)
      t1 == h1.translate
      t2 == h2.translate
      X1 == IF t1 < t2 THEN Shift(h1.X, t2 - t1) ELSE h1.X
      vis_p1 == IF t1 < t2 THEN Align(h1.vis_p, t2 - t1) ELSE h1.vis_p
      vis_f1 == IF t1 < t2 THEN Align(h1.vis_f, t2 - t1) ELSE h1.vis_f
      X2 == IF t2 < t1 THEN Shift(h2.X, t1 - t2) ELSE h2.X
      vis_p2 == IF t2 < t1 THEN Align(vis_p2r, t1 - t2) ELSE vis_p2r
      vis_f2 == IF t2 < t1 THEN Align(vis_f2r, t1 - t2) ELSE vis_f2r
      translate == IF t1 < t2 THEN t2 ELSE t1
      st == MergeLoop(X1, X2, L1, vis_p2, 1,
                      [vis_p |-> vis_p1, max_val |-> SeqMax(X1),
                       vis_f1 |-> vis_f1, E_merge |-> <<>>])
      vis_f1end == IF Len(st.vis_f1) > 0
                   THEN Append(Front(st.vis_f1), <<Last(st.vis_f1)[1], SeqMax(X2)>>)
                   ELSE st.vis_f1
  IN [err |-> "none", V |-> L1 + L2, E |-> h1.E \o st.E_merge \o E2,
      vis_p |-> st.vis_p, vis_f |-> vis_f1end \o vis_f2,
      X |-> X1 \o X2, translate |-> translate]

\* The operands as merge's loops see them: relabelled and aligned.  copied
\* tells whether vis_p1 and vis_f1 were rebuilt by the alignment (t1 < t2);
\* otherwise they are the very lists the tuple hvg_1 holds.
MergeOperands(h1, h2) ==
  LET L1 == h1.V
      t1 == h1.translate
      t2 == h2.translate
      vis_p2r == Relabel(h2.vis_p, L1)
  IN [L1 |-> L1,
      X1 |-> IF t1 < t2 THEN Shift(h1.X, t2 - t1) ELSE h1.X,
      X2 |-> IF t2 < t1 THEN Shift(h2.X, t1 - t2) ELSE h2.X,
      vis_p1 |-> IF t1 < t2 THEN Align(h1.vis_p, t2 - t1) ELSE h1.vis_p,
      vis_f1 |-> IF t1 < t2 THEN Align(h1.vis_f, t2 - t1) ELSE h1.vis_f,
      vis_p2 |-> IF t2 < t1 THEN Align(vis_p2r, t1 - t2) ELSE vis_p2r,
      copied |-> t1 < t2]

\* the loop's variables once the first k records of vis_p2 are processed
MergeLoopUpTo(a, k) ==
  MergeLoop(a.X1, a.X2, a.L1, SubSeq(a.vis_p2, 1, k), 1,
            [vis_p |-> a.vis_p1, max_val |-> SeqMax(a.X1),
             vis_f1 |-> a.vis_f1, E_merge |-> <<>>])

\* the records of vis_p2 that make the loop execute vis_f1 = vis_f1[:-1],
\* which binds the name vis_f1 to a new list
Slicing(a) ==
  {k \in 1..Len(a.vis_p2) :
     Len(MergeLoopUpTo(a, k).vis_f1) < Len(MergeLoopUpTo(a, k - 1).vis_f1)}

\* The tuple hvg_1 once merge(hvg_1, hvg_2) has returned.  vis_p.append
\* writes to the list of hvg_1 unless the alignment copied it; the item
\* assignments vis_f1[-1] = ... write to the list of hvg_1 as long as the
\* name vis_f1 still refers to it.
Hvg1AfterUntouched(h1, h2) == h1
Hvg1After(h1, h2) ==
  LET a == MergeOperands(h1, h2)
      fin == MergeLoopUpTo(a, Len(a.vis_p2))
      first == CHOOSE k \in Slicing(a) : \A j \in Slicing(a) : k <= j
  IN IF a.copied THEN h1
     ELSE [h1 EXCEPT
             !.vis_p = fin.vis_p,
             !.vis_f = IF Slicing(a) # {}
                       THEN MergeLoopUpTo(a, first - 1).vis_f1
                       ELSE IF Len(fin.vis_f1) > 0
                       THEN Append(Front(fin.vis_f1),
                                   <<Last(fin.vis_f1)[1], SeqMax(a.X2)>>)
                       ELSE fin.vis_f1]

\* ------------------------------------------------------------------------
\* dc_hvg.hvg
\* ------------------------------------------------------------------------
\* np.argmax(X[left:right]) + left: the first index of the maximum
ArgMax(X, left, right) ==
  CHOOSE k \in left..(right - 1) :
    /\ \A j \in left..(right - 1) : X[j + 1] <= X[k + 1]
    /\ \A j \in left..(k - 1) : X[j + 1] < X[k + 1]

\* all( yc[k] < min(X[a],X[b]) ... ), yc = X[a+1:b]
DcVisible(X, a, b) ==
  \A j \in (a + 1)..(b - 1) : X[j + 1] < Min(X[a + 1], X[b + 1])

\* all( yc[k] >= max(X[a],X[b]) ... ): the early break
DcBreakOnMin(X, a, b) ==
  \A j \in (a + 1)..(b - 1) : X[j + 1] >= Min(X[a + 1], X[b + 1])
DcBreak(X, a, b) ==
  \A j \in (a + 1)..(b - 1) : X[j + 1] >= Max(X[a + 1], X[b + 1])

\* the for loop over i, from i on
RECURSIVE DcScan(_, _, _, _, _)
DcScan(X, right, k, i, node_visible) ==
  IF i >= right THEN node_visible
  ELSE IF i = k THEN DcScan(X, right, k, i + 1, node_visible)
  ELSE IF DcVisible(X, Min(i, k), Max(i, k))
       THEN DcScan(X, right, k, i + 1, Append(node_visible, i))
  ELSE IF DcBreak(X, Min(i, k), Max(i, k)) THEN node_visible
  ELSE DcScan(X, right, k, i + 1, node_visible)

\* hvg(X, left, right, all_visible): all_visible is one list, threaded
\* through the two recursive calls
RECURSIVE DcHvg(_, _, _, _)
DcHvg(X, left, right, all_visible) ==
  IF left < right
  THEN LET k == ArgMax(X, left, right)
           node_visible == DcScan(X, right, k, left, <<>>)
           av == IF Len(node_visible) > 0
                 THEN Append(all_visible, <<k, node_visible>>)
                 ELSE all_visible
       IN DcHvg(X, k + 1, right, DcHvg(X, left, k, av))
  ELSE all_visible

\* ------------------------------------------------------------------------
\* State: hv maps each name to the builder bound to it (live: bound at all;
\* V and E are the ChainMap lists over the stores VL and EL).  fed, origin
\* and lastOp are history: the (vx, v) pairs a builder stands for in temporal
\* order, whether a merge has produced it, the operands of the a + b that
\* created it (copy), the number of vertices it had after its last merge,
\* and the last call made.  calls lists, for each add_one call made on a
\* builder, the length of vis_f when the loop was entered, the number of
\* iterations the loop made and the labels it deleted from vis_f.
\* ------------------------------------------------------------------------
Unbound == [live |-> FALSE, V |-> <<>>, E |-> <<>>, vis_p |-> <<>>,
            vis_f |-> <<>>, max_val |-> NegInf, nw |-> Inf]

Fresh(n, nw) == [live |-> TRUE, V |-> <<n>>, E |-> <<n>>, vis_p |-> <<>>,
                 vis_f |-> <<>>, max_val |-> NegInf, nw |-> nw]

Core(o) == [vis_p |-> o.vis_p, vis_f |-> o.vis_f, max_val |-> o.max_val, nw |-> o.nw]

\* origin of a builder no merge has produced
NoOrigin == [merged |-> FALSE, l |-> "", r |-> "", copy |-> FALSE, n |-> 0]

NoOp == [op |-> "init", tgt |-> "", other |-> "", copy |-> FALSE, dst |-> ""]

InitDT(nws) ==
  /\ hv = [o \in Obj |-> IF o = "a" THEN Fresh(1, nws["a"])
                         ELSE IF o = "b" THEN Fresh(2, nws["b"])
                         ELSE IF o = "e" THEN Fresh(3, nws["e"])
                         ELSE Unbound]
  /\ VL = <<EmptyDict, EmptyDict, EmptyDict>>
  /\ EL = <<EmptyDict, EmptyDict, EmptyDict>>
  /\ fed = [o \in Obj |-> <<>>]
  /\ origin = [o \in Obj |-> NoOrigin]
  /\ used = {}
  /\ nadd = 0
  /\ nmerge = 0
  /\ err = "none"
  /\ unbound = FALSE
  /\ lastOp = NoOp
  /\ calls = [o \in Obj |-> <<>>]

InitLinIdle ==
  /\ bX = <<>>
  /\ bOut = <<>>
  /\ dcOut = <<>>
  /\ pieces = <<>>
  /\ acc = <<>>
  /\ accN = 0
  /\ hvgOut = <<>>

\* a, b and e are constructed with any neighbour_weight; e is given b's
Init ==
  /\ \E nws \in {c \in [Base -> NWs] : c["e"] = c["b"]} : InitDT(nws)
  /\ InitLinIdle
  /\ InitHarnessIdle
  /\ InitTreeIdle
  /\ InitScriptsIdle
  /\ InitObjIdle

\* The driver feeds values in temporal order with labels 0, 1, 2, ...; a
\* builder takes a value when it is empty or holds the latest label, the
\* builders are started in the order a, b, e, and none is started once the
\* merging has begun, and a builder handed to a merge as an operand is read
\* but not fed any more.  No exception is caught: the run ends where one is
\* raised.
MayFeed(o) ==
  /\ hv[o].live
  /\ o \notin used
  /\ fed[o] = <<>> => /\ o \in Base
                      /\ nmerge = 0
                      /\ o = "b" => fed["a"] # <<>>
                      /\ o = "e" => fed["b"] # <<>>
  /\ fed[o] # <<>> => Last(fed[o])[2] = nadd - 1

\* what one add_one call did: every iteration of the loop assigns one
\* E[u, v]; the entries deleted are those of vis_f above the ones left
CallRecord(vis_f, r) ==
  [before |-> Len(vis_f),
   iters |-> Len(r.writes),
   removed |-> [i \in 1..(Len(vis_f) - (Len(r.vis_f) - 1)) |->
                  vis_f[Len(r.vis_f) - 1 + i][2]]]

\* o.add_one(vx, v) with v the next label
AddOne(o, vx) ==
  /\ err = "none"
  /\ nadd < MaxAdds
  /\ MayFeed(o)
  /\ LET v == nadd
         r == AddOneCore(Core(hv[o]), vx, v)
     IN /\ VL' = ChainSet(VL, hv[o].V, v, vx)
        /\ EL' = [EL EXCEPT ![hv[o].E[1]] = ApplyWrites(@, r.writes)]
        /\ hv' = [hv EXCEPT ![o].vis_p = r.vis_p, ![o].vis_f = r.vis_f,
                            ![o].max_val = r.max_val]
        /\ unbound' = (unbound \/ r.unbound)
        /\ fed' = [fed EXCEPT ![o] = Append(@, <<vx, v>>)]
        /\ calls' = [calls EXCEPT ![o] = Append(@, CallRecord(hv[o].vis_f, r))]
  /\ nadd' = nadd + 1
  /\ err' = "none"
  /\ lastOp' = [op |-> "add_one", tgt |-> o, other |-> "", copy |-> FALSE, dst |-> o]
  /\ UNCHANGED <<origin, used, nmerge>>
  /\ UNCHANGED linvars
  /\ UNCHANGED hvars
  /\ UNCHANGED tvars
  /\ UNCHANGED svars
  /\ UNCHANGED ovars

\* r's values are the chunk that follows l's
InOrder(l, r) ==
  (fed[l] # <<>> /\ fed[r] # <<>>) => Last(fed[l])[2] + 1 = fed[r][1][2]

\* the builder merge returns: l.merge(r, copy), with the new dict of
\* merge_edges stored at index n of EL
Merged(l, r, n) ==
  [live |-> TRUE,
   V |-> NewChild(l.V, r.V),
   E |-> NewChild(NewChild(l.E, r.E), <<n>>),
   vis_p |-> MergeVisP(l, r),
   vis_f |-> MergeVisF(l, r),
   max_val |-> Max(l.max_val, r.max_val),
   nw |-> l.nw]

\* a merge that hands back the other operand when one operand is empty
MergeSkipsEmpty(l, r, copy, dst) ==
  /\ err = "none"
  /\ nmerge < MaxMerges
  /\ l # r
  /\ hv[l].live /\ hv[r].live
  /\ InOrder(l, r)
  /\ l \notin used /\ r \notin used
  /\ used' = used \cup (IF copy THEN {l, r} ELSE {r})
  /\ IF copy THEN dst \in Slots /\ ~hv[dst].live /\ (dst = "t" => hv["s"].live) ELSE dst = l
  /\ nmerge' = nmerge + 1
  /\ lastOp' = [op |-> "merge", tgt |-> l, other |-> r, copy |-> copy, dst |-> dst]
  /\ IF ~NwCompatible(hv[l], hv[r])
     THEN /\ err' = "AssertionError"
          /\ UNCHANGED <<hv, VL, EL, fed, origin, calls>>
     ELSE IF hv[l].vis_f = <<>> \/ hv[r].vis_p = <<>>
     THEN \* the other operand's graph is handed back
          /\ err' = "none"
          /\ hv' = [hv EXCEPT ![dst] = IF hv[l].vis_f = <<>> THEN hv[r] ELSE hv[l]]
          /\ fed' = [fed EXCEPT ![dst] = fed[l] \o fed[r]]
          /\ origin' = [origin EXCEPT ![dst].merged = TRUE,
                                      ![dst].n = Len(fed[l]) + Len(fed[r])]
          /\ UNCHANGED <<VL, EL, calls>>
     ELSE IF MergeError(hv[l], hv[r]) # "none"
     THEN \* raised after the mappings of the returned instance were chained
          /\ err' = MergeError(hv[l], hv[r])
          /\ hv' = IF copy THEN hv
                   ELSE [hv EXCEPT ![l].V = NewChild(hv[l].V, hv[r].V),
                                   ![l].E = NewChild(hv[l].E, hv[r].E)]
          /\ UNCHANGED <<VL, EL, fed, origin, calls>>
     ELSE /\ err' = "none"
          /\ EL' = Append(EL, MergeEdges(hv[l], hv[r]))
          /\ hv' = [hv EXCEPT ![dst] = Merged(hv[l], hv[r], Len(EL) + 1)]
          /\ fed' = [fed EXCEPT ![dst] = fed[l] \o fed[r]]
          /\ origin' = [origin EXCEPT ![dst] =
                          IF copy
                          THEN [merged |-> TRUE, l |-> l, r |-> r, copy |-> TRUE,
                                n |-> Len(fed[l]) + Len(fed[r])]
                          ELSE [@ EXCEPT !.merged = TRUE,
                                         !.n = Len(fed[l]) + Len(fed[r])]]
          /\ calls' = [calls EXCEPT ![dst] = IF copy THEN <<>> ELSE calls[l]]
          /\ UNCHANGED VL
  /\ UNCHANGED <<nadd, unbound>>
  /\ UNCHANGED linvars
  /\ UNCHANGED hvars
  /\ UNCHANGED tvars
  /\ UNCHANGED svars
  /\ UNCHANGED ovars

\* dst = l + r (copy) or l += r (dst = l).  The driver folds chunks: a
\* builder that went into a merge is not handed to another one, except the
\* accumulator of +=.
Merge(l, r, copy, dst) ==
  /\ err = "none"
  /\ nmerge < MaxMerges
  /\ l # r
  /\ hv[l].live /\ hv[r].live
  /\ InOrder(l, r)
  /\ l \notin used /\ r \notin used
  /\ used' = used \cup (IF copy THEN {l, r} ELSE {r})
  /\ IF copy THEN dst \in Slots /\ ~hv[dst].live /\ (dst = "t" => hv["s"].live) ELSE dst = l
  /\ nmerge' = nmerge + 1
  /\ lastOp' = [op |-> "merge", tgt |-> l, other |-> r, copy |-> copy, dst |-> dst]
  /\ IF ~NwCompatible(hv[l], hv[r])
     THEN /\ err' = "AssertionError"
          /\ UNCHANGED <<hv, VL, EL, fed, origin, calls>>
     ELSE IF MergeError(hv[l], hv[r]) # "none"
     THEN \* raised after the mappings of the returned instance were chained
          /\ err' = MergeError(hv[l], hv[r])
          /\ hv' = IF copy THEN hv
                   ELSE [hv EXCEPT ![l].V = NewChild(hv[l].V, hv[r].V),
                                   ![l].E = NewChild(hv[l].E, hv[r].E)]
          /\ UNCHANGED <<VL, EL, fed, origin, calls>>
     ELSE /\ err' = "none"
          /\ EL' = Append(EL, MergeEdges(hv[l], hv[r]))
          /\ hv' = [hv EXCEPT ![dst] = Merged(hv[l], hv[r], Len(EL) + 1)]
          /\ fed' = [fed EXCEPT ![dst] = fed[l] \o fed[r]]
          /\ origin' = [origin EXCEPT ![dst] =
                          IF copy
                          THEN [merged |-> TRUE, l |-> l, r |-> r, copy |-> TRUE,
                                n |-> Len(fed[l]) + Len(fed[r])]
                          ELSE [@ EXCEPT !.merged = TRUE,
                                         !.n = Len(fed[l]) + Len(fed[r])]]
          /\ calls' = [calls EXCEPT ![dst] = IF copy THEN <<>> ELSE calls[l]]
          /\ UNCHANGED VL
  /\ UNCHANGED <<nadd, unbound>>
  /\ UNCHANGED linvars
  /\ UNCHANGED hvars
  /\ UNCHANGED tvars
  /\ UNCHANGED svars
  /\ UNCHANGED ovars

Next ==
  \/ \E o \in Obj, vx \in Vals : AddOne(o, vx)
  \/ \E l \in Obj, r \in Obj, dst \in Slots : Merge(l, r, TRUE, dst)
  \/ \E l \in Obj, r \in Obj : Merge(l, r, FALSE, l)

Spec == Init /\ [][Next]_vars

\* what a caller reads through builder o
Obs(o) ==
  [V |-> ChainDict(VL, hv[o].V), E |-> ChainDict(EL, hv[o].E),
   vis_p |-> hv[o].vis_p, vis_f |-> hv[o].vis_f, max_val |-> hv[o].max_val]


\* the edge mapping read through builder o, and its values and labels
EdgeDict(o) == ChainDict(EL, hv[o].E)
ValuesOf(o) == [i \in 1..Len(fed[o]) |-> fed[o][i][1]]
LabelsOf(o) == [i \in 1..Len(fed[o]) |-> fed[o][i][2]]

\* a single HVG with o's neighbour_weight fed o's values with o's labels
Direct(o) == AddBatchFresh(NewHVG(hv[o].nw), EmptyDict, fed[o])

\* o is bound to a builder that only add_one calls have acted on
OnlyAddOne(o) ==
  /\ hv[o].live
  /\ ~origin[o].merged
  /\ ~(lastOp.op = "merge" /\ lastOp.tgt = o /\ ~lastOp.copy)

\* C3: after add_one calls on a fresh HVG with increasing labels, the keys
\* of E are exactly the horizontally visible pairs of the values fed, each
\* with the earlier vertex first.
C3_AddOneKeysAreVisiblePairs ==
  \A o \in Obj : OnlyAddOne(o) =>
    /\ DOMAIN EdgeDict(o) =
         {<<LabelsOf(o)[p[1] + 1], LabelsOf(o)[p[2] + 1]>> : p \in VisiblePairs(ValuesOf(o))}
    /\ \A k \in DOMAIN EdgeDict(o) : k[1] < k[2]

\* C3 witness: a holds three vertices labelled 0, 1, 2 and the edge (0,2).
C3_Witness ==
  /\ OnlyAddOne("a")
  /\ Len(fed["a"]) = 3
  /\ <<0, 2>> \in DOMAIN EdgeDict("a")

\* C4: every builder a merge has produced (a + b, a += b, any folding of
\* three pieces), for any shared neighbour_weight, has the edge keys and
\* weights of a single HVG fed the same values with the same labels.
C4_MergeEqualsDirectBuild ==
  \A o \in Obj : origin[o].merged => EdgeDict(o) = Direct(o).E

\* C4, default neighbour_weight only: with np.inf configured the merged
\* edges and weights do equal those of the direct build.
C4_DefaultWeightMergeEqualsDirect ==
  \A o \in Obj : (origin[o].merged /\ hv[o].nw = Inf) => EdgeDict(o) = Direct(o).E

\* the labels o was given after its last merge
PostLabels(o) == {fed[o][i][2] : i \in (origin[o].n + 1)..Len(fed[o])}

\* C5: a merged builder has the vis_p, vis_f and max_val of the direct
\* build, and keeps them equal under further add_one calls, which add the
\* same edges with the same weights as on the direct build.
C5_MergedBoundaryEqualsDirect ==
  \A o \in Obj : origin[o].merged =>
    LET D == Direct(o)
    IN /\ hv[o].vis_p = D.core.vis_p
       /\ hv[o].vis_f = D.core.vis_f
       /\ hv[o].max_val = D.core.max_val
       /\ \A k \in (DOMAIN EdgeDict(o)) \cup (DOMAIN D.E) :
            k[2] \in PostLabels(o) =>
              /\ k \in DOMAIN EdgeDict(o)
              /\ k \in DOMAIN D.E
              /\ EdgeDict(o)[k] = D.E[k]

\* C5 witness: a merged builder took a further value that sees, past the
\* chunk boundary, a vertex that is not its neighbour.
C5_Witness ==
  \E o \in Obj :
    /\ origin[o].merged
    /\ Len(fed[o]) > origin[o].n
    /\ \E k \in DOMAIN EdgeDict(o) : k[2] \in PostLabels(o) /\ k[2] > k[1] + 1

\* C7: add_one and batch_hvg give the same edges with the same weight on
\* every edge, adjacent pairs included.
C7_AddOneWeightsEqualBatch ==
  \A o \in Obj : (OnlyAddOne(o) /\ fed[o] # <<>>) =>
    LET B == BatchHvg(ValuesOf(o)).E
        off == fed[o][1][2]
    IN /\ DOMAIN EdgeDict(o) = {<<B[i][1] + off, B[i][2] + off>> : i \in 1..Len(B)}
       /\ \A i \in 1..Len(B) :
            EdgeDict(o)[<<B[i][1] + off, B[i][2] + off>>] = B[i][3]

\* C7, pairs that are not adjacent only: there the two algorithms agree on
\* keys and weights.
C7_NonAdjacentWeightsEqualBatch ==
  \A o \in Obj : (OnlyAddOne(o) /\ fed[o] # <<>>) =>
    LET B == BatchHvg(ValuesOf(o)).E
        off == fed[o][1][2]
    IN /\ DOMAIN EdgeDict(o) = {<<B[i][1] + off, B[i][2] + off>> : i \in 1..Len(B)}
       /\ \A i \in 1..Len(B) :
            (B[i][2] > B[i][1] + 1) =>
              EdgeDict(o)[<<B[i][1] + off, B[i][2] + off>>] = B[i][3]

\* C8: in a builder made by add_one calls, with any neighbour_weight, each
\* two consecutively added vertices are joined by an edge of weight
\* neighbour_weight, and h is never read before it is assigned.
C8_NeighbourEdgesCarrySentinel ==
  /\ ~unbound
  /\ \A o \in Obj : OnlyAddOne(o) =>
       \A i \in 1..(Len(fed[o]) - 1) :
         /\ <<fed[o][i][2], fed[o][i + 1][2]>> \in DOMAIN EdgeDict(o)
         /\ EdgeDict(o)[<<fed[o][i][2], fed[o][i + 1][2]>>] = hv[o].nw

\* C8 witness: a builder with the finite neighbour_weight holds two
\* consecutive vertices whose values both exceed it.
C8_Witness ==
  \E o \in Obj :
    /\ OnlyAddOne(o)
    /\ hv[o].nw = 1
    /\ \E i \in 1..(Len(fed[o]) - 1) : fed[o][i][1] > 1 /\ fed[o][i + 1][1] > 1

\* C9: for c = a + b, neither that merge nor any later add_one or merge on c
\* changes V, E, vis_p, vis_f or max_val as read through a or through b.
C9_CopyMergeLeavesOperandsAlone ==
  [][\A c \in Obj : \A l \in Obj : \A r \in Obj :
       ( /\ origin'[c].merged /\ origin'[c].copy
         /\ origin'[c].l = l /\ origin'[c].r = r
         /\ (lastOp'.dst = c \/ lastOp'.tgt = c) )
       => (Obs(l)' = Obs(l) /\ Obs(r)' = Obs(r))]_vars

\* C10: a merge of builders whose neighbour_weight values differ raises
\* AssertionError, binds no merged graph and leaves every builder and every
\* mapping as it was.
C10_MismatchedMergeFailsUntouched ==
  [][( /\ lastOp'.op = "merge"
       /\ nmerge' = nmerge + 1
       /\ hv[lastOp'.tgt].nw # hv[lastOp'.other].nw )
     => (err' = "AssertionError" /\ hv' = hv /\ VL' = VL /\ EL' = EL)]_vars

\* C10 witness: a += b was called on two non-empty builders with different
\* neighbour_weight values and raised.
C10_Witness ==
  /\ err = "AssertionError"
  /\ lastOp.op = "merge" /\ ~lastOp.copy
  /\ hv[lastOp.tgt].nw # hv[lastOp.other].nw
  /\ fed[lastOp.tgt] # <<>> /\ fed[lastOp.other] # <<>>

StrictlyIncreasing(X) == \A i \in 1..(Len(X) - 1) : X[i] < X[i + 1]
StrictlyDecreasing(X) == \A i \in 1..(Len(X) - 1) : X[i] > X[i + 1]

\* C11: after a strictly increasing series of n values, add_one and
\* batch_hvg both end with n entries in vis_p and 1 in vis_f; after a
\* strictly decreasing one, with n entries in vis_f and 1 in vis_p.
C11_MonotoneBoundarySizes ==
  \A o \in Obj : (OnlyAddOne(o) /\ fed[o] # <<>>) =>
    LET X == ValuesOf(o)
        n == Len(X)
        B == BatchHvg(X)
    IN /\ StrictlyIncreasing(X) =>
            /\ Len(hv[o].vis_p) = n /\ Len(hv[o].vis_f) = 1
            /\ Len(B.vis_p) = n /\ Len(B.vis_f) = 1
       /\ StrictlyDecreasing(X) =>
            /\ Len(hv[o].vis_f) = n /\ Len(hv[o].vis_p) = 1
            /\ Len(B.vis_f) = n /\ Len(B.vis_p) = 1

\* C11 witness: a builder has taken three strictly increasing values.
C11_Witness ==
  \E o \in Obj :
    /\ OnlyAddOne(o)
    /\ Len(fed[o]) = 3
    /\ StrictlyIncreasing(ValuesOf(o))
    /\ Len(hv[o].vis_p) = 3

\* the (vx, v) pairs of f, in order, whose value is strictly greater than
\* every later value, and those strictly greater than every earlier one
SuffixMaxima(f) ==
  SelectSeq([i \in 1..Len(f) |-> <<f[i], \A j \in (i + 1)..Len(f) : f[j][1] < f[i][1]>>],
            LAMBDA e : e[2])
PrefixMaxima(f) ==
  SelectSeq([i \in 1..Len(f) |-> <<f[i], \A j \in 1..(i - 1) : f[j][1] < f[i][1]>>],
            LAMBDA e : e[2])
Firsts(q) == [i \in 1..Len(q) |-> q[i][1]]

\* C21: while every add_one and merge call has returned, a builder with at
\* least one vertex has a non-empty vis_f whose values strictly decrease
\* from bottom to top, whose top is the vertex added last, which holds
\* exactly the vertices strictly greater than every later value, and which
\* is no longer than the number of vertices.
C21_VisFIsSuffixMaxima ==
  \A o \in Obj : (err = "none" /\ hv[o].live /\ fed[o] # <<>>) =>
    /\ hv[o].vis_f # <<>>
    /\ StrictlyDecreasing(Firsts(hv[o].vis_f))
    /\ Last(hv[o].vis_f) = Last(fed[o])
    /\ hv[o].vis_f = Firsts(SuffixMaxima(fed[o]))
    /\ Len(hv[o].vis_f) <= Len(fed[o])

\* C21 witness: a merge returned a builder whose vis_f keeps an entry of
\* the left operand and has lost another one.
C21_Witness ==
  \E o \in Obj :
    /\ err = "none"
    /\ origin[o].merged /\ origin[o].copy
    /\ Len(hv[o].vis_f) < Len(hv[origin[o].l].vis_f) + Len(hv[origin[o].r].vis_f)
    /\ hv[o].vis_f[1] = hv[origin[o].l].vis_f[1]
    /\ Len(hv[origin[o].r].vis_f) >= 1

\* C22: while every add_one and merge call has returned, vis_p holds
\* exactly the strict prefix maxima of the values a builder stands for, in
\* temporal order (strictly increasing, the first vertex first), and
\* max_val is the value of the last vis_p entry, the maximum of all values.
C22_VisPIsPrefixMaxima ==
  \A o \in Obj : (err = "none" /\ hv[o].live /\ fed[o] # <<>>) =>
    /\ hv[o].vis_p = Firsts(PrefixMaxima(fed[o]))
    /\ StrictlyIncreasing(Firsts(hv[o].vis_p))
    /\ hv[o].vis_p[1] = fed[o][1]
    /\ hv[o].max_val = Last(hv[o].vis_p)[1]
    /\ hv[o].max_val = SeqMax(ValuesOf(o))

\* C22 witness: a merge returned a builder whose vis_p has taken one entry
\* of the right operand and left another one out.
C22_Witness ==
  \E o \in Obj :
    /\ err = "none"
    /\ origin[o].merged /\ origin[o].copy
    /\ Len(hv[o].vis_p) > Len(hv[origin[o].l].vis_p)
    /\ Len(hv[o].vis_p) < Len(hv[origin[o].l].vis_p) + Len(hv[origin[o].r].vis_p)

\* C23: on every edge (u,v) with v > u+1 the weight add_one computes from
\* the height h popped before, min(X[u],X[v]) - h, equals the weight
\* batch_hvg computes from u's recorded blocking height, and both weights
\* are strictly positive.
C23_PoppedHeightEqualsRecordedBottom ==
  \A o \in Obj : (OnlyAddOne(o) /\ fed[o] # <<>>) =>
    LET B == BatchHvg(ValuesOf(o)).E
        off == fed[o][1][2]
    IN \A i \in 1..Len(B) :
         (B[i][2] > B[i][1] + 1) =>
           /\ <<B[i][1] + off, B[i][2] + off>> \in DOMAIN EdgeDict(o)
           /\ EdgeDict(o)[<<B[i][1] + off, B[i][2] + off>>] = B[i][3]
           /\ B[i][3] > 0
           /\ EdgeDict(o)[<<B[i][1] + off, B[i][2] + off>>] > 0

\* C23 witness: a builder holds an edge (u,v), v > u+1, whose earlier end is
\* the higher one, so that batch_hvg weighs it from a recorded height.
C23_Witness ==
  \E o \in Obj :
    /\ OnlyAddOne(o)
    /\ Len(fed[o]) = 3
    /\ <<fed[o][1][2], fed[o][3][2]>> \in DOMAIN EdgeDict(o)
    /\ fed[o][1][1] > fed[o][3][1]
    /\ fed[o][3][1] > fed[o][2][1]

\* C30: a merge in which self or other has no vertices raises an error:
\* no builder is bound to a merged graph, and no builder's values, vis_p,
\* vis_f or max_val change.
C30_EmptyOperandMergeRaises ==
  [][( /\ lastOp'.op = "merge"
       /\ nmerge' = nmerge + 1
       /\ (fed[lastOp'.tgt] = <<>> \/ fed[lastOp'.other] = <<>>) )
     => /\ err' \in {"AssertionError", "ValueError", "IndexError"}
        /\ fed' = fed
        /\ origin' = origin
        /\ \A o \in Obj :
             /\ hv'[o].live = hv[o].live
             /\ hv'[o].vis_p = hv[o].vis_p
             /\ hv'[o].vis_f = hv[o].vis_f
             /\ hv'[o].max_val = hv[o].max_val]_vars

\* C30 witness: an accumulator that holds no vertex was extended with += by
\* a builder that holds some, with equal neighbour_weight, and the call
\* raised.
C30_Witness ==
  /\ err = "IndexError"
  /\ lastOp.op = "merge" /\ ~lastOp.copy
  /\ fed[lastOp.tgt] = <<>> /\ fed[lastOp.other] # <<>>
  /\ hv[lastOp.tgt].nw = hv[lastOp.other].nw

\* the labels deleted from vis_f over a list of calls, and the iterations
RECURSIVE AllRemoved(_)
AllRemoved(cs) == IF cs = <<>> THEN <<>> ELSE cs[1].removed \o AllRemoved(Tail(cs))
RECURSIVE AllIters(_)
AllIters(cs) == IF cs = <<>> THEN 0 ELSE cs[1].iters + AllIters(Tail(cs))

SeqsUpTo(n) == UNION {[1..m -> Vals] : m \in 0..n}

InitBatch ==
  /\ InitDT([o \in Base |-> Inf])
  /\ bX \in SeqsUpTo(MaxLen)
  /\ bOut = <<>>
  /\ dcOut = <<>>
  /\ pieces = <<>>
  /\ acc = <<>>
  /\ accN = 0
  /\ hvgOut = <<>>
  /\ InitHarnessIdle
  /\ InitTreeIdle
  /\ InitScriptsIdle
  /\ InitObjIdle

RunBatch ==
  /\ bOut = <<>>
  /\ pieces = <<>>
  /\ bOut' = <<BatchHvg(bX)>>
  /\ UNCHANGED <<bX, dcOut, pieces, acc, accN, hvgOut>>
  /\ UNCHANGED dtvars
  /\ UNCHANGED hvars
  /\ UNCHANGED tvars
  /\ UNCHANGED svars
  /\ UNCHANGED ovars

RunDc ==
  /\ dcOut = <<>>
  /\ pieces = <<>>
  /\ dcOut' = <<DcHvg(bX, 0, Len(bX), <<>>)>>
  /\ UNCHANGED <<bX, bOut, pieces, acc, accN, hvgOut>>
  /\ UNCHANGED dtvars
  /\ UNCHANGED hvars
  /\ UNCHANGED tvars
  /\ UNCHANGED svars
  /\ UNCHANGED ovars

\* hvg(bX, include_weights) is called; hvgOut keeps the flag and the outcome
RunHvg(include_weights) ==
  /\ hvgOut = <<>>
  /\ pieces = <<>>
  /\ hvgOut' = <<[include_weights |-> include_weights,
                  out |-> LinHvg(bX, include_weights)]>>
  /\ UNCHANGED <<bX, bOut, dcOut, pieces, acc, accN>>
  /\ UNCHANGED dtvars
  /\ UNCHANGED hvars
  /\ UNCHANGED tvars
  /\ UNCHANGED svars
  /\ UNCHANGED ovars

\* the chunks of X that the cut positions in cuts delimit, in order
RECURSIVE Chunks(_, _, _)
Chunks(X, from, cuts) ==
  IF cuts = {} THEN <<SubSeq(X, from, Len(X))>>
  ELSE LET c == CHOOSE x \in cuts : \A y \in cuts : x <= y
       IN <<SubSeq(X, from, c)>> \o Chunks(X, c + 1, cuts \ {c})

\* the driver cuts bX into two or more non-empty chunks and builds each
BuildChunks(cuts) ==
  /\ pieces = <<>>
  /\ cuts # {}
  /\ Cardinality(cuts) < MaxPieces
  /\ LET ch == Chunks(bX, 1, cuts)
     IN pieces' = [i \in 1..Len(ch) |-> BatchHvg(ch[i])]
  /\ UNCHANGED <<bX, bOut, dcOut, acc, accN, hvgOut>>
  /\ UNCHANGED dtvars
  /\ UNCHANGED hvars
  /\ UNCHANGED tvars
  /\ UNCHANGED svars
  /\ UNCHANGED ovars

\* the vis_p of acc is the list pieces[1] holds: every merge so far took it
\* over from its first operand without copying
AccSharesVisP == \A k \in 2..accN : pieces[1].translate >= pieces[k].translate

\* the next step of the left fold: merge(acc, pieces[accN]); the lists the
\* call writes to change in the piece that holds them
MergeNext ==
  /\ Len(pieces) >= 2
  /\ accN < Len(pieces)
  /\ IF accN = 0
     THEN /\ acc' = <<LinMerge(pieces[1], pieces[2])>>
          /\ accN' = 2
          /\ pieces' = [pieces EXCEPT ![1] = Hvg1After(pieces[1], pieces[2])]
     ELSE /\ acc' = <<LinMerge(acc[1], pieces[accN + 1])>>
          /\ accN' = accN + 1
          /\ pieces' = IF AccSharesVisP
                       THEN [pieces EXCEPT ![1].vis_p =
                               Hvg1After(acc[1], pieces[accN + 1]).vis_p]
                       ELSE pieces
  /\ UNCHANGED <<bX, bOut, dcOut, hvgOut>>
  /\ UNCHANGED dtvars
  /\ UNCHANGED hvars
  /\ UNCHANGED tvars
  /\ UNCHANGED svars
  /\ UNCHANGED ovars

NextBatch ==
  \/ RunBatch
  \/ RunDc
  \/ \E include_weights \in BOOLEAN : RunHvg(include_weights)
  \/ \E cuts \in SUBSET (1..(Len(bX) - 1)) : BuildChunks(cuts)
  \/ MergeNext

SpecBatch == InitBatch /\ [][NextBatch]_vars

\* the (u, v) pairs of an edge list of (u, v, w) triples
PairsOf(E) == {<<E[i][1], E[i][2]>> : i \in 1..Len(E)}

NoPairTwice(E) ==
  \A i \in 1..Len(E) : \A j \in 1..Len(E) :
    (i # j) => <<E[i][1], E[i][2]>> # <<E[j][1], E[j][2]>>

\* C1: the (u,v) pairs batch_hvg(X) returns are exactly the horizontally
\* visible pairs of X, ties included, each listed once.
C1_BatchEdgesAreVisiblePairs ==
  (bOut # <<>> /\ bOut[1].err = "none") =>
    /\ PairsOf(bOut[1].E) = VisiblePairs(bX)
    /\ NoPairTwice(bOut[1].E)

\* C1 witness: batch_hvg has returned for a series with a tie that blocks a
\* pair and with a visible pair that is not adjacent.
C1_Witness ==
  /\ bOut # <<>> /\ bOut[1].err = "none"
  /\ \E p \in PairsOf(bOut[1].E) : p[2] > p[1] + 1
  /\ \E i \in 0..(Len(bX) - 1) : \E j \in (i + 2)..(Len(bX) - 1) :
       /\ ~Visible(bX, i, j)
       /\ \E k \in (i + 1)..(j - 1) : bX[k + 1] = Min(bX[i + 1], bX[j + 1])
       /\ \A k \in (i + 1)..(j - 1) : bX[k + 1] <= Min(bX[i + 1], bX[j + 1])

\* the reports [k, visible_list] of dc_hvg.hvg as a list of unordered pairs
RECURSIVE DcReports(_)
DcReports(av) ==
  IF av = <<>> THEN <<>>
  ELSE [i \in 1..Len(av[1][2]) |->
          <<Min(av[1][1], av[1][2][i]), Max(av[1][1], av[1][2][i])>>]
       \o DcReports(Tail(av))

\* C2: dc_hvg.hvg(X), early break included, reports exactly the horizontally
\* visible pairs of X, each exactly once.
C2_DcReportsVisiblePairsOnce ==
  dcOut # <<>> =>
    LET rep == DcReports(dcOut[1])
    IN /\ {rep[i] : i \in 1..Len(rep)} = VisiblePairs(bX)
       /\ \A i \in 1..Len(rep) : \A j \in 1..Len(rep) : (i # j) => rep[i] # rep[j]

\* C2 witness: hvg has returned for a series on which the early break is
\* taken at the top level with indices still to scan.
C2_Witness ==
  /\ dcOut # <<>>
  /\ Len(bX) >= 3
  /\ LET k == ArgMax(bX, 0, Len(bX))
     IN \E i \in 0..(Len(bX) - 2) :
          /\ i # k
          /\ ~DcVisible(bX, Min(i, k), Max(i, k))
          /\ DcBreak(bX, Min(i, k), Max(i, k))

\* C6: the (u,v) pairs of the left fold of linear_hvg.merge over the batch
\* HVGs of the chunks equal those of batch_hvg of the chunks' concatenation.
C6_LinMergePairsEqualBatch ==
  acc # <<>> =>
    PairsOf(acc[1].E) = PairsOf(BatchHvg(SubSeq(bX, 1, acc[1].V)).E)

\* C6 witness: three chunks have been folded and the merges added a pair
\* that joins the first chunk to the last.
C6_Witness ==
  /\ acc # <<>>
  /\ Len(pieces) = 3 /\ accN = 3
  /\ \E p \in PairsOf(acc[1].E) :
       p[1] < pieces[1].V /\ p[2] >= pieces[1].V + pieces[2].V

\* the (u, v, w) triples of an edge list
TriplesOf(E) == {E[i] : i \in 1..Len(E)}

\* C25: for every split of a series in two chunks, merge of the two batch
\* results returns the (u,v,w) triples, the aligned X and the translate of
\* batch_hvg of the whole series, whatever shifts the chunks were built with.
C25_MergeWeightsEqualBatch ==
  (acc # <<>> /\ accN = 2) =>
    LET whole == BatchHvg(SubSeq(bX, 1, acc[1].V))
    IN /\ TriplesOf(acc[1].E) = TriplesOf(whole.E)
       /\ acc[1].X = whole.X
       /\ acc[1].translate = whole.translate

\* C25, chunks built with one shift: then the merge does return the triples,
\* X and translate of batch_hvg of the whole series.
C25_SameShiftMergeEqualsBatch ==
  (acc # <<>> /\ accN = 2 /\ pieces[1].translate = pieces[2].translate) =>
    LET whole == BatchHvg(SubSeq(bX, 1, acc[1].V))
    IN /\ TriplesOf(acc[1].E) = TriplesOf(whole.E)
       /\ acc[1].X = whole.X
       /\ acc[1].translate = whole.translate

\* C26: for every non-empty X, hvg(X, include_weights) returns without
\* raising the pair (V, E) of batch_hvg(X), E reduced to (u,v) pairs when
\* include_weights is False.
C26_HvgReturnsBatchGraph ==
  (hvgOut # <<>> /\ bX # <<>>) =>
    LET r == BatchHvg(bX)
    IN /\ hvgOut[1].out.err = "none"
       /\ hvgOut[1].out.V = r.V
       /\ hvgOut[1].out.E =
            IF hvgOut[1].include_weights THEN r.E
            ELSE [i \in 1..Len(r.E) |-> <<r.E[i][1], r.E[i][2]>>]

\* C28: merge(hvg_1, hvg_2) leaves both tuples as they were, the vis_p and
\* vis_f lists of hvg_1 included, so that merging the same two batch results
\* again gives the output it gave.
C28_MergeLeavesInputsAlone ==
  [][(accN = 0 /\ accN' = 2) =>
       /\ pieces' = pieces
       /\ LinMerge(pieces'[1], pieces'[2]) = acc'[1]]_vars

\* C28, second operand only: merge never changes hvg_2.
C28_MergeLeavesSecondAlone ==
  [][(accN = 0 /\ accN' = 2) => pieces'[2] = pieces[2]]_vars

\* ------------------------------------------------------------------------
\* The experiment harnesses.  cfg is the experiment: the program run, the
\* grid (nAlg algorithms by nSrc sources, one length and one repetition),
\* the sources that raise on every call and the (algorithm, source) pairs on
\* which the algorithm raises.  A series is named by the generation task
\* that produced it, 0 is None.  genDone and timDone are the pool's tasks in
\* the order the workers completed them, genK and timK the number of results
\* the parent has retrieved.  A duration is 0 when measured and -1 for the
\* sentinel; a result carries the task it was measured by.
\* ------------------------------------------------------------------------
Progs == {"run_experiment", "experiments_01", "experiment_utils"}

NoRes == [set |-> FALSE, series |-> 0, raised |-> "none", attempts |-> 0,
          task |-> 0, val |-> 0]

NUnits == cfg.nAlg * cfg.nSrc

\* experiments_01 lists its units data key first, the others algorithm first
KeyMajor == cfg.prog = "experiments_01"
AlgOf(u) == IF KeyMajor THEN ((u - 1) % cfg.nAlg) + 1 ELSE ((u - 1) \div cfg.nSrc) + 1
SrcOf(u) == IF KeyMajor THEN ((u - 1) \div cfg.nAlg) + 1 ELSE ((u - 1) % cfg.nSrc) + 1

\* experiments_01 generates one series per data key, the others one per unit
NGen == IF KeyMajor THEN cfg.nSrc ELSE NUnits
GenSrc(j) == IF KeyMajor THEN j ELSE SrcOf(j)

\* the except branch of the retry loop: tries -= 1 on a local never assigned
ExceptBranch(tries_remaining) ==
  [raised |-> "UnboundLocalError", tries_remaining |-> tries_remaining]

\* the while loop of generate_time_series for a source that returns a series
\* (ok) or raises on every call; j names the series returned
RECURSIVE RetryLoop(_, _, _, _)
RetryLoop(ok, j, tries_remaining, attempts) ==
  IF tries_remaining > 0
  THEN IF ok
       THEN [set |-> TRUE, series |-> j, raised |-> "none", attempts |-> attempts + 1,
             task |-> j, val |-> 0]
       ELSE LET e == ExceptBranch(tries_remaining)
            IN IF e.raised # "none"
               THEN [set |-> TRUE, series |-> 0, raised |-> e.raised,
                     attempts |-> attempts + 1, task |-> j, val |-> 0]
               ELSE RetryLoop(ok, j, e.tries_remaining, attempts + 1)
  ELSE [set |-> TRUE, series |-> 0, raised |-> "none", attempts |-> attempts,
        task |-> j, val |-> 0]

\* generate_time_series for generation task j, as run by a worker
GenerateTimeSeries(j) ==
  LET ok == GenSrc(j) \notin cfg.srcRaises
  IN IF cfg.prog = "experiment_utils"
     THEN [set |-> TRUE, series |-> IF ok THEN j ELSE 0,
           raised |-> IF ok THEN "none" ELSE "Exception",
           attempts |-> 1, task |-> j, val |-> 0]
     ELSE RetryLoop(ok, j, TriesRemaining, 0)

\* the algorithm of unit u raises on the series t
AlgRaises(u, t) == t = 0 \/ <<AlgOf(u), GenSrc(t)>> \in cfg.algFails

\* the series unit u is timed on
SeriesOf(u) == IF KeyMajor THEN ts[SrcOf(u)] ELSE ts[u]

\* time_algorithm for unit u, as run by a worker
TimeAlgorithm(u) ==
  IF KeyMajor /\ SeriesOf(u) = 0
  THEN [set |-> TRUE, series |-> 0, raised |-> "KeyError", attempts |-> 0,
        task |-> u, val |-> 0]
  ELSE IF AlgRaises(u, SeriesOf(u))
  THEN IF cfg.prog = "experiment_utils"
       THEN [set |-> TRUE, series |-> SeriesOf(u), raised |-> "Exception",
             attempts |-> 0, task |-> u, val |-> 0]
       ELSE [set |-> TRUE, series |-> SeriesOf(u), raised |-> "none",
             attempts |-> 0, task |-> u, val |-> -1]
  ELSE [set |-> TRUE, series |-> SeriesOf(u), raised |-> "none",
        attempts |-> 0, task |-> u, val |-> 0]

\* pool.imap_unordered in run_experiment, pool.imap elsewhere
RetrievalAllUnordered(p) == "unordered"
Retrieval(p) == IF p = "run_experiment" THEN "unordered" ELSE "ordered"

InSeq(x, q) == \E i \in 1..Len(q) : q[i] = x

\* results.next() after k retrievals: whether a result is there, and whose
NextReady(done, k) ==
  IF Retrieval(cfg.prog) = "unordered" THEN Len(done) > k ELSE InSeq(k + 1, done)
NextTask(done, k) ==
  IF Retrieval(cfg.prog) = "unordered" THEN done[k + 1] ELSE k + 1

Grids == {g \in (1..MaxUnits) \X (1..MaxUnits) : g[1] * g[2] <= MaxUnits}

InitHarness ==
  /\ \E p \in Progs, g \in Grids :
       \E sr \in SUBSET (1..g[2]), af \in SUBSET ((1..g[1]) \X (1..g[2])) :
         /\ cfg = [prog |-> p, nAlg |-> g[1], nSrc |-> g[2], srcRaises |-> sr,
                   algFails |-> af]
         /\ genRes = [j \in 1..(IF p = "experiments_01" THEN g[2] ELSE g[1] * g[2]) |-> NoRes]
         /\ ts = [j \in 1..(IF p = "experiments_01" THEN g[2] ELSE g[1] * g[2]) |-> 0]
         /\ diag = [j \in 1..(IF p = "experiments_01" THEN g[2] ELSE g[1] * g[2]) |-> 0]
         /\ timRes = [u \in 1..(g[1] * g[2]) |-> NoRes]
         /\ results = [u \in 1..(g[1] * g[2]) |-> NoRes]
  /\ phase = "gen"
  /\ genDone = <<>>
  /\ genK = 0
  /\ timDone = <<>>
  /\ timK = 0
  /\ hdr = 0
  /\ rows = <<>>
  /\ snapshot = 0
  /\ herr = "none"
  /\ InitDT([o \in Base |-> Inf])
  /\ InitLinIdle
  /\ InitTreeIdle
  /\ InitScriptsIdle
  /\ InitObjIdle

\* a worker finishes generation task j
GenComplete(j) ==
  /\ phase = "gen"
  /\ j \in 1..NGen
  /\ ~InSeq(j, genDone)
  /\ genDone' = Append(genDone, j)
  /\ genRes' = [genRes EXCEPT ![j] = GenerateTimeSeries(j)]
  /\ UNCHANGED <<cfg, phase, genK, ts, diag, timRes, timDone, timK, hdr, rows,
                 results, snapshot, herr>>
  /\ UNCHANGED dtvars
  /\ UNCHANGED linvars
  /\ UNCHANGED tvars
  /\ UNCHANGED svars
  /\ UNCHANGED ovars

\* one iteration of the parent's loop over the generation results;
\* experiments_01 joins the pool before its loop
GenConsume ==
  /\ phase = "gen"
  /\ genK < NGen
  /\ NextReady(genDone, genK)
  /\ KeyMajor => Len(genDone) = NGen
  /\ LET r == genRes[NextTask(genDone, genK)]
     IN IF r.raised # "none"
        THEN /\ herr' = r.raised
             /\ phase' = "crashed"
             /\ UNCHANGED <<ts, diag, genK>>
        ELSE /\ ts' = [ts EXCEPT ![genK + 1] = r.series]
             /\ diag' = [diag EXCEPT ![genK + 1] =
                           IF KeyMajor /\ r.series = 0 THEN @ + 1 ELSE @]
             /\ genK' = genK + 1
             /\ UNCHANGED <<herr, phase>>
  /\ UNCHANGED <<cfg, genRes, genDone, timRes, timDone, timK, hdr, rows,
                 results, snapshot>>
  /\ UNCHANGED dtvars
  /\ UNCHANGED linvars
  /\ UNCHANGED tvars
  /\ UNCHANGED svars
  /\ UNCHANGED ovars

\* between the phases: the data is pickled (not by experiment_utils), the
\* results file is opened for writing with its header row
StartTiming ==
  /\ phase = "gen"
  /\ genK = NGen
  /\ phase' = "timing"
  /\ hdr' = 1
  /\ rows' = <<>>
  /\ UNCHANGED <<cfg, genRes, genDone, genK, ts, diag, timRes, timDone, timK,
                 results, snapshot, herr>>
  /\ UNCHANGED dtvars
  /\ UNCHANGED linvars
  /\ UNCHANGED tvars
  /\ UNCHANGED svars
  /\ UNCHANGED ovars

\* a worker finishes timing unit u
TimComplete(u) ==
  /\ phase = "timing"
  /\ u \in 1..NUnits
  /\ ~InSeq(u, timDone)
  /\ timDone' = Append(timDone, u)
  /\ timRes' = [timRes EXCEPT ![u] = TimeAlgorithm(u)]
  /\ UNCHANGED <<cfg, phase, genRes, genDone, genK, ts, diag, timK, hdr, rows,
                 results, snapshot, herr>>
  /\ UNCHANGED dtvars
  /\ UNCHANGED linvars
  /\ UNCHANGED tvars
  /\ UNCHANGED svars
  /\ UNCHANGED ovars

\* one iteration of the parent's loop over the timing results: the result
\* retrieved is stored in and written out for the unit the loop is at
TimConsume ==
  /\ phase = "timing"
  /\ timK < NUnits
  /\ NextReady(timDone, timK)
  /\ LET r == timRes[NextTask(timDone, timK)]
     IN IF r.raised # "none"
        THEN /\ herr' = r.raised
             /\ phase' = "crashed"
             /\ UNCHANGED <<results, rows, timK>>
        ELSE /\ results' = [results EXCEPT ![timK + 1] = r]
             /\ rows' = Append(rows, [unit |-> timK + 1, task |-> r.task,
                                      series |-> r.series, val |-> r.val])
             /\ timK' = timK + 1
             /\ UNCHANGED <<herr, phase>>
  /\ UNCHANGED <<cfg, genRes, genDone, genK, ts, diag, timRes, timDone, hdr,
                 snapshot>>
  /\ UNCHANGED dtvars
  /\ UNCHANGED linvars
  /\ UNCHANGED tvars
  /\ UNCHANGED svars
  /\ UNCHANGED ovars

\* after the loop: the results file is closed and, except in experiments_01,
\* the records with their results are pickled
Finish ==
  /\ phase = "timing"
  /\ timK = NUnits
  /\ phase' = "done"
  /\ snapshot' = IF KeyMajor THEN snapshot ELSE snapshot + 1
  /\ UNCHANGED <<cfg, genRes, genDone, genK, ts, diag, timRes, timDone, timK,
                 hdr, rows, results, herr>>
  /\ UNCHANGED dtvars
  /\ UNCHANGED linvars
  /\ UNCHANGED tvars
  /\ UNCHANGED svars
  /\ UNCHANGED ovars

NextHarness ==
  \/ \E j \in 1..MaxUnits : GenComplete(j)
  \/ GenConsume
  \/ StartTiming
  \/ \E u \in 1..MaxUnits : TimComplete(u)
  \/ TimConsume
  \/ Finish

SpecHarness == InitHarness /\ [][NextHarness]_vars


RetryingProgs == {"run_experiment", "experiments_01"}

\* the generation of task j has run and its source raises on every call
GenerationFailed(j) == genRes[j].set /\ GenSrc(j) \in cfg.srcRaises

\* C12: generate_time_series of run_experiment.py and experiments_01.py,
\* given a source that raises on every call, calls it exactly 10 times and
\* then returns None without raising, and one diagnostic is logged for the
\* record once the parent has its result.
C12_ExhaustedRetriesReturnNone ==
  cfg.prog \in RetryingProgs =>
    \A j \in 1..NGen : GenerationFailed(j) =>
      /\ genRes[j].attempts = TriesRemaining
      /\ genRes[j].raised = "none"
      /\ genRes[j].series = 0
      /\ (phase \in {"timing", "done"}) => diag[j] = 1

\* C13: in run_experiment.py, whatever order the workers complete in, each
\* record's time_series comes from the record's own source and length, and
\* each record's result and CSV row carry the duration measured by the
\* record's own algorithm on the record's own series.
C13_UnorderedResultsMatchRecords ==
  cfg.prog = "run_experiment" =>
    /\ \A i \in 1..genK : ts[i] # 0 /\ GenSrc(ts[i]) = SrcOf(i)
    /\ \A k \in 1..Len(rows) :
         /\ AlgOf(rows[k].task) = AlgOf(rows[k].unit)
         /\ rows[k].series = ts[rows[k].unit]
         /\ results[rows[k].unit].task = rows[k].task

\* C14: in run_experiment.py and experiments_01.py, whichever units'
\* algorithms raise, the timing phase is never aborted, every row written
\* carries -1 exactly when its own unit's algorithm raised and a measured
\* duration otherwise, and the finished run has one row per unit.
C14_SentinelForExactlyFailingUnits ==
  cfg.prog \in RetryingProgs =>
    /\ (hdr = 1) => herr = "none"
    /\ \A k \in 1..Len(rows) :
         /\ rows[k].unit = k
         /\ rows[k].val = (IF AlgRaises(k, SeriesOf(k)) THEN -1 ELSE 0)
    /\ (phase = "done") => Len(rows) = NUnits

\* the units timed on the series of generation task j
UnitsOn(j) == {u \in 1..NUnits : IF KeyMajor THEN SrcOf(u) = j ELSE u = j}

\* C15: in run_experiment.py and experiments_01.py a record whose
\* generation failed leaves the run going, has no algorithm invoked on it
\* and gets no timing row.
C15_FailedGenerationExcluded ==
  cfg.prog \in RetryingProgs =>
    \A j \in 1..NGen : GenerationFailed(j) =>
      /\ herr = "none"
      /\ \A u \in UnitsOn(j) : ~timRes[u].set
      /\ \A k \in 1..Len(rows) : rows[k].unit \notin UnitsOn(j)

\* C16: in experiment_utils, whatever order the workers finish in, record i
\* gets the series generated from its own source and length and the
\* duration measured for it, the results file holds the header and then
\* one row per record in record order, and the snapshot is written only
\* once every record has a result.
C16_OrderedResultsMatchRecords ==
  cfg.prog = "experiment_utils" =>
    /\ \A i \in 1..genK : ts[i] # 0 /\ GenSrc(ts[i]) = SrcOf(i)
    /\ (phase \in {"timing", "done"}) => hdr = 1
    /\ \A k \in 1..Len(rows) :
         /\ rows[k].unit = k
         /\ rows[k].task = k
         /\ rows[k].series = ts[k]
         /\ results[k] = timRes[k]
    /\ (phase = "done") => Len(rows) = NUnits
    /\ (snapshot > 0) => \A u \in 1..NUnits : results[u].set

\* C16 witness: experiment_utils has finished a run over records of two
\* different sources whose time series and timings the workers completed
\* out of record order.
C16_Witness ==
  /\ cfg.prog = "experiment_utils"
  /\ phase = "done"
  /\ snapshot = 1
  /\ cfg.nSrc >= 2
  /\ genDone[1] # 1
  /\ timDone[1] # 1


\* ------------------------------------------------------------------------
\* bst_hvg.Node and binary_hvg.Node.  A tree is <<value, data, left, right>>
\* with value the index and data the magnitude; <<>> is None, and also the
\* Node() no value has been added to.
\* ------------------------------------------------------------------------
Nil == <<>>

\* bst_hvg.Node.add(Node(value, data)) on the tree t
RECURSIVE BstAddMirrored(_, _, _)
BstAddMirrored(t, value, data) ==
  IF t = Nil THEN <<value, data, Nil, Nil>>
  ELSE IF value > t[1]
       THEN <<t[1], t[2], BstAddMirrored(t[3], value, data), t[4]>>
       ELSE <<t[1], t[2], t[3], BstAddMirrored(t[4], value, data)>>

RECURSIVE BstAdd(_, _, _)
BstAdd(t, value, data) ==
  IF t = Nil THEN <<value, data, Nil, Nil>>
  ELSE IF value < t[1]
       THEN <<t[1], t[2], BstAdd(t[3], value, data), t[4]>>
       ELSE <<t[1], t[2], t[3], BstAdd(t[4], value, data)>>

\* binary_hvg.Node.add
RECURSIVE BinAdd(_, _, _)
BinAdd(t, value, data) ==
  IF t = Nil THEN <<value, data, Nil, Nil>>
  ELSE IF value < t[1]
       THEN <<t[1], t[2], BinAdd(t[3], value, data), t[4]>>
       ELSE <<t[1], t[2], t[3], BinAdd(t[4], value, data)>>

\* np.argsort(X, kind='mergesort')[::-1] over the indices in rem: the stable
\* ascending order read backwards, so of equal values the later comes first
RECURSIVE ArgsortDesc(_, _)
ArgsortDesc(X, rem) ==
  IF rem = {} THEN <<>>
  ELSE LET i == CHOOSE k \in rem :
                  \A j \in rem : X[j + 1] < X[k + 1] \/ (X[j + 1] = X[k + 1] /\ j <= k)
       IN <<i>> \o ArgsortDesc(X, rem \ {i})

\* the for loop of hvg over the sorted indices
RECURSIVE BstInsertAll(_, _, _)
BstInsertAll(t, idx, X) ==
  IF idx = <<>> THEN t
  ELSE BstInsertAll(BstAdd(t, idx[1], X[idx[1] + 1]), Tail(idx), X)

BstHvg(X) == BstInsertAll(Nil, ArgsortDesc(X, 0..(Len(X) - 1)), X)

RECURSIVE BinInsertAll(_, _, _)
BinInsertAll(t, idx, X) ==
  IF idx = <<>> THEN t
  ELSE BinInsertAll(BinAdd(t, idx[1], X[idx[1] + 1]), Tail(idx), X)

BinaryHvg(X) == BinInsertAll(Nil, ArgsortDesc(X, 0..(Len(X) - 1)), X)

\* ------------------------------------------------------------------------
\* bst_hvg.merge
\* ------------------------------------------------------------------------
Sign(x) == IF x > 0 THEN 1 ELSE IF x < 0 THEN -1 ELSE 0

\* sorted(..., key=value): stable, ascending
RECURSIVE InsertByValue(_, _)
InsertByValue(sorted, t) ==
  IF sorted = <<>> THEN <<t>>
  ELSE IF Last(sorted)[1] <= t[1] THEN Append(sorted, t)
       ELSE Append(InsertByValue(Front(sorted), t), Last(sorted))

RECURSIVE SortByValue(_)
SortByValue(roots) ==
  IF roots = <<>> THEN <<>>
  ELSE InsertByValue(SortByValue(Front(roots)), Last(roots))

\* list.index(max(...)) over the data of the roots: the first maximum
FirstMaxData(roots) ==
  CHOOSE i \in 1..Len(roots) :
    /\ \A j \in 1..Len(roots) : roots[j][2] <= roots[i][2]
    /\ \A j \in 1..(i - 1) : roots[j][2] < roots[i][2]

\* list.remove(root): drops the first element equal to root, and Node
\* equality compares value and data
RECURSIVE RemoveFirstEqual(_, _)
RemoveFirstEqual(roots, root) ==
  IF roots = <<>> THEN <<>>
  ELSE IF roots[1][1] = root[1] /\ roots[1][2] = root[2] THEN Tail(roots)
       ELSE <<roots[1]>> \o RemoveFirstEqual(Tail(roots), root)

\* the kid of pool[i] on side c (3 left, 4 right) is moved to the end of the
\* pool when it lies on the other side of the threshold than its parent
DetachKid(pool, i, c, th) ==
  LET node == pool[i]
  IN IF node[c] # Nil /\ Sign(node[1] - th) # Sign(node[c][1] - th)
     THEN Append([pool EXCEPT ![i] = [node EXCEPT ![c] = Nil]], node[c])
     ELSE pool

\* the loop over iter_pool, from its i-th node on; n is len(iter_pool)
RECURSIVE DetachLoop(_, _, _, _)
DetachLoop(pool, i, n, th) ==
  IF i > n THEN pool
  ELSE DetachLoop(DetachKid(DetachKid(pool, i, 3, th), i, 4, th), i + 1, n, th)

\* the kids of the maximum root, left first
RootKids(root) ==
  (IF root[3] # Nil THEN <<root[3]>> ELSE <<>>) \o
  (IF root[4] # Nil THEN <<root[4]>> ELSE <<>>)

\* merge(list_roots_in)
RECURSIVE BstMerge(_)
BstMerge(list_roots_in) ==
  IF Len(list_roots_in) = 0 THEN Nil
  ELSE IF Len(list_roots_in) = 1 THEN list_roots_in[1]
  ELSE
    LET list_roots == SortByValue(list_roots_in)
        root == list_roots[FirstMaxData(list_roots)]
        th == root[1]
        iter_pool == RemoveFirstEqual(list_roots, root)
        pool == DetachLoop(iter_pool, 1, Len(iter_pool), th) \o RootKids(root)
        IsSmaller(x) == x[1] < th
        IsBigger(x) == x[1] > th
    IN <<root[1], root[2], BstMerge(SelectSeq(pool, IsSmaller)),
         BstMerge(SelectSeq(pool, IsBigger))>>

\* a chunk's tree with every index moved to its position in the whole series
RECURSIVE Reindex(_, _)
Reindex(t, off) ==
  IF t = Nil THEN Nil
  ELSE <<t[1] + off, t[2], Reindex(t[3], off), Reindex(t[4], off)>>

\* ------------------------------------------------------------------------
\* The tree encodings of one input series tX.  bstOut and binOut hold the
\* tree returned by bst_hvg.hvg(tX) and binary_hvg(tX) once called; tPieces
\* holds the trees of the chunks of tX, indexed by position in tX; tAcc the
\* left fold a + b + ... over the first tAccN of them and tList the result
\* of merge over the whole list.  merge detaches children from the nodes it
\* is handed, so the chunk trees go into one merging only.  hvgs, merged and
\* mergedN are the locals of record_run_times: the trees hvg_func returned
\* for the slices of the data, the fold so far (<<>> before hvgs[0] is
\* taken) and the number of trees it holds.
\* ------------------------------------------------------------------------
InitTree ==
  /\ tX \in SeqsUpTo(MaxLen) \ {<<>>}
  /\ bstOut = <<>>
  /\ binOut = <<>>
  /\ tPieces = <<>>
  /\ tAcc = <<>>
  /\ tAccN = 0
  /\ tList = <<>>
  /\ hvgs = <<>>
  /\ merged = <<>>
  /\ mergedN = 0
  /\ InitDT([o \in Base |-> Inf])
  /\ InitLinIdle
  /\ InitHarnessIdle
  /\ InitScriptsIdle
  /\ InitObjIdle

RunBstHvg ==
  /\ bstOut = <<>>
  /\ tPieces = <<>>
  /\ hvgs = <<>>
  /\ bstOut' = <<BstHvg(tX)>>
  /\ UNCHANGED <<tX, binOut, tPieces, tAcc, tAccN, tList, hvgs, merged, mergedN>>
  /\ UNCHANGED dtvars
  /\ UNCHANGED linvars
  /\ UNCHANGED hvars
  /\ UNCHANGED svars
  /\ UNCHANGED ovars

RunBinaryHvg ==
  /\ binOut = <<>>
  /\ tPieces = <<>>
  /\ hvgs = <<>>
  /\ binOut' = <<BinaryHvg(tX)>>
  /\ UNCHANGED <<tX, bstOut, tPieces, tAcc, tAccN, tList, hvgs, merged, mergedN>>
  /\ UNCHANGED dtvars
  /\ UNCHANGED linvars
  /\ UNCHANGED hvars
  /\ UNCHANGED svars
  /\ UNCHANGED ovars

\* the start position (1-based) of chunk i of ch
RECURSIVE ChunkStart(_, _)
ChunkStart(ch, i) == IF i = 1 THEN 0 ELSE ChunkStart(ch, i - 1) + Len(ch[i - 1])

\* tX is cut into two or more non-empty chunks and each is encoded
BuildTreeChunks(cuts) ==
  /\ tPieces = <<>>
  /\ hvgs = <<>>
  /\ cuts # {}
  /\ Cardinality(cuts) < MaxPieces
  /\ LET ch == Chunks(tX, 1, cuts)
     IN tPieces' = [i \in 1..Len(ch) |-> Reindex(BstHvg(ch[i]), ChunkStart(ch, i))]
  /\ UNCHANGED <<tX, bstOut, binOut, tAcc, tAccN, tList, hvgs, merged, mergedN>>
  /\ UNCHANGED dtvars
  /\ UNCHANGED linvars
  /\ UNCHANGED hvars
  /\ UNCHANGED svars
  /\ UNCHANGED ovars

\* the next step of the fold: Node.__add__ is merge([self, other])
MergeTreesNext ==
  /\ Len(tPieces) >= 2
  /\ tList = <<>>
  /\ tAccN < Len(tPieces)
  /\ IF tAccN = 0
     THEN /\ tAcc' = <<BstMerge(<<tPieces[1], tPieces[2]>>)>>
          /\ tAccN' = 2
     ELSE /\ tAcc' = <<BstMerge(<<tAcc[1], tPieces[tAccN + 1]>>)>>
          /\ tAccN' = tAccN + 1
  /\ UNCHANGED <<tX, bstOut, binOut, tPieces, tList, hvgs, merged, mergedN>>
  /\ UNCHANGED dtvars
  /\ UNCHANGED linvars
  /\ UNCHANGED hvars
  /\ UNCHANGED svars
  /\ UNCHANGED ovars

\* merge(roots) over all the chunk trees at once
MergeTreeList ==
  /\ Len(tPieces) >= 2
  /\ tList = <<>>
  /\ tAccN = 0
  /\ tList' = <<BstMerge(tPieces)>>
  /\ UNCHANGED <<tX, bstOut, binOut, tPieces, tAcc, tAccN, hvgs, merged, mergedN>>
  /\ UNCHANGED dtvars
  /\ UNCHANGED linvars
  /\ UNCHANGED hvars
  /\ UNCHANGED svars
  /\ UNCHANGED ovars

\* data[n:n+chunk_size] for n in range(0, len(data), chunk_size), from the
\* 0-based position n on
RECURSIVE Slices(_, _, _)
Slices(data, n, chunk_size) ==
  IF n >= Len(data) THEN <<>>
  ELSE <<SubSeq(data, n + 1, Min(n + chunk_size, Len(data)))>>
       \o Slices(data, n + chunk_size, chunk_size)

\* hvgs: hvg_func applied to each slice as it is
DriverHvgs(data, chunk_size) ==
  LET sl == Slices(data, 0, chunk_size)
  IN [i \in 1..Len(sl) |-> BstHvg(sl[i])]

\* the first loop of record_run_times, then merged = hvgs[0]
DriverBuild(chunk_size) ==
  /\ hvgs = <<>>
  /\ tPieces = <<>>
  /\ bstOut = <<>> /\ binOut = <<>>
  /\ Len(Slices(tX, 0, chunk_size)) <= MaxPieces
  /\ hvgs' = DriverHvgs(tX, chunk_size)
  /\ merged' = <<DriverHvgs(tX, chunk_size)[1]>>
  /\ mergedN' = 1
  /\ UNCHANGED <<tX, bstOut, binOut, tPieces, tAcc, tAccN, tList>>
  /\ UNCHANGED dtvars
  /\ UNCHANGED linvars
  /\ UNCHANGED hvars
  /\ UNCHANGED svars
  /\ UNCHANGED ovars

\* one iteration of the second loop: merged = merged + hvg
DriverMerge ==
  /\ hvgs # <<>>
  /\ mergedN < Len(hvgs)
  /\ merged' = <<BstMerge(<<merged[1], hvgs[mergedN + 1]>>)>>
  /\ mergedN' = mergedN + 1
  /\ UNCHANGED <<tX, bstOut, binOut, tPieces, tAcc, tAccN, tList, hvgs>>
  /\ UNCHANGED dtvars
  /\ UNCHANGED linvars
  /\ UNCHANGED hvars
  /\ UNCHANGED svars
  /\ UNCHANGED ovars

NextTree ==
  \/ \E chunk_size \in 1..MaxLen : DriverBuild(chunk_size)
  \/ DriverMerge
  \/ RunBstHvg
  \/ RunBinaryHvg
  \/ \E cuts \in SUBSET (1..(Len(tX) - 1)) : BuildTreeChunks(cuts)
  \/ MergeTreesNext
  \/ MergeTreeList

SpecTree == InitTree /\ [][NextTree]_vars


\* the (value, data) pairs of a tree, left subtree first
RECURSIVE TreeInOrder(_)
TreeInOrder(t) ==
  IF t = Nil THEN <<>>
  ELSE TreeInOrder(t[3]) \o <<<<t[1], t[2]>>>> \o TreeInOrder(t[4])

\* no child has larger data than its parent
RECURSIVE MaxHeap(_)
MaxHeap(t) ==
  IF t = Nil THEN TRUE
  ELSE /\ (t[3] # Nil) => (t[3][2] <= t[2] /\ MaxHeap(t[3]))
       /\ (t[4] # Nil) => (t[4][2] <= t[2] /\ MaxHeap(t[4]))

\* t encodes X: in-order its indices are 0..n-1, it is a max-heap on data
\* and the root carries the maximum of X
EncodesSeries(t, X) ==
  /\ t # Nil
  /\ Len(TreeInOrder(t)) = Len(X)
  /\ \A i \in 1..Len(X) : TreeInOrder(t)[i][1] = i - 1
  /\ MaxHeap(t)
  /\ t[2] = SeqMax(X)

\* C17: for a non-empty X the tree of bst_hvg.hvg(X), and that of
\* binary_hvg(X), has one node per index 0..n-1, is a binary search tree on
\* the index, a max-heap on the data, and its root has the maximum of X.
C17_TreeIsBstAndMaxHeap ==
  /\ (bstOut # <<>>) => EncodesSeries(bstOut[1], tX)
  /\ (binOut # <<>>) => EncodesSeries(binOut[1], tX)

\* C17 witness: both trees are built for a series of four values whose
\* maximum occurs twice and whose root has a child on either side.
C17_Witness ==
  /\ bstOut # <<>> /\ binOut # <<>>
  /\ Len(tX) = 4
  /\ Cardinality({i \in 1..4 : tX[i] = SeqMax(tX)}) = 2
  /\ bstOut[1][3] # Nil /\ bstOut[1][4] # Nil

\* C18: merging the trees of adjacent chunks, indexed by position in the
\* whole series, gives the tree hvg builds on the concatenated series, for
\* the fold a + b + ... and for merge over the whole list, equal values in
\* different chunks included.
C18_MergeEqualsTreeFromScratch ==
  /\ (tAcc # <<>>) =>
       tAcc[1] = BstHvg(SubSeq(tX, 1, Len(TreeInOrder(tAcc[1]))))
  /\ (tList # <<>>) => tList[1] = BstHvg(tX)


\* the samples the first k trees of hvgs were built from
SamplesIn(k) == Min(k * Len(TreeInOrder(hvgs[1])), Len(tX))

\* the data of the nodes of a tree, as a bag, and the values of a series
DataBag(t) ==
  LET io == TreeInOrder(t)
  IN [d \in {io[i][2] : i \in 1..Len(io)} |->
        Cardinality({i \in 1..Len(io) : io[i][2] = d})]
SeriesBag(X) ==
  [d \in {X[i] : i \in 1..Len(X)} |-> Cardinality({i \in 1..Len(X) : X[i] = d})]

\* C29: in record_run_times with bst_hvg.hvg, after each merged + hvg the
\* tree holds exactly one node per sample of the slices folded so far, and
\* at the end one per sample of the whole series.
C29_FoldKeepsEveryNode ==
  (hvgs # <<>>) =>
    /\ Len(TreeInOrder(merged[1])) = SamplesIn(mergedN)
    /\ DataBag(merged[1]) = SeriesBag(SubSeq(tX, 1, SamplesIn(mergedN)))

\* C29, trees indexed by position in the whole series: there the fold keeps
\* one node per sample, with the indices 0, 1, 2, ... in order.
C29_GlobalIndicesKeepEveryNode ==
  (tAcc # <<>>) =>
    LET io == TreeInOrder(tAcc[1])
    IN /\ \A i \in 1..Len(io) : io[i] = <<i - 1, tX[i]>>
       /\ tAccN = Len(tPieces) => Len(io) = Len(tX)

\* ------------------------------------------------------------------------
\* merge_experiment3_ipp.py.  A work unit is its number of chunks nch, the
\* chunk whose construction raises (0: none), the merge that raises (0:
\* none), and whether the task itself fails on its engine.  A time is 0
\* when measured.  iRes holds the tasks' outcomes, iPos the number of
\* results the iterator has handed out, iDead whether it has raised, iCount
\* the loop counter, iIters the iterations performed.
\* ------------------------------------------------------------------------
ChunkCounts == {1, 2}

UnitKinds ==
  {u \in [nch : ChunkCounts, buildFail : 0..2, mergeFail : 0..1, engine : BOOLEAN] :
     /\ u.buildFail <= u.nch
     /\ u.mergeFail <= u.nch - 1
     /\ u.buildFail # 0 => u.mergeFail = 0
     /\ u.engine => (u.buildFail = 0 /\ u.mergeFail = 0)}

NoTask == [set |-> FALSE, raised |-> FALSE, hvg_times |-> <<>>, merge_times |-> <<>>,
           params |-> 0]

\* the first try block: one HVG and one time per chunk, from chunk n on
RECURSIVE BuildHvgs(_, _, _)
BuildHvgs(u, n, hvg_times) ==
  IF n > u.nch THEN [raised |-> FALSE, hvg_times |-> hvg_times]
  ELSE IF n = u.buildFail THEN [raised |-> TRUE, hvg_times |-> hvg_times]
  ELSE BuildHvgs(u, n + 1, Append(hvg_times, 0))

\* the second try block: merged += hvg for every further chunk, from the
\* n-th merge on
RECURSIVE MergeHvgs(_, _, _)
MergeHvgs(u, n, merge_times) ==
  IF n > u.nch - 1 THEN [raised |-> FALSE, merge_times |-> merge_times]
  ELSE IF n = u.mergeFail THEN [raised |-> TRUE, merge_times |-> merge_times]
  ELSE MergeHvgs(u, n + 1, Append(merge_times, 0))

\* the value a build failure returns, and what it would be if the times
\* measured so far were handed back
BuildFailureKeepsTimes(b, k) == <<b.hvg_times, <<-1>>, k>>
BuildFailure(b, k) == <<<<-1>>, <<-1>>, k>>

\* record_run_times_parallel(experiment_params) for unit k
RecordRunTimesParallel(k) ==
  LET u == iUnits[k]
      b == BuildHvgs(u, 1, <<>>)
      m == MergeHvgs(u, 1, <<>>)
  IN IF b.raised THEN BuildFailure(b, k)
     ELSE IF m.raised THEN <<b.hvg_times, <<-1>>, k>>
     ELSE <<b.hvg_times, m.merge_times, k>>

RECURSIVE SumSeq(_)
SumSeq(q) == IF q = <<>> THEN 0 ELSE q[1] + SumSeq(Tail(q))

\* ------------------------------------------------------------------------
\* run_exp01.py.  It imports linear_hvg.linear_hvg and dc_hvg.dc_hvg, names
\* the modules under src/ do not define; xLinked tells whether the modules
\* it was written against are the ones found.  xFile is results_exp01.txt
\* as a list of lines, each tagged with the run that wrote it.
\* ------------------------------------------------------------------------
Lengths == <<10, 50, 100, 500, 1000, 5000, 10000, 50000, 100000>>
AllSeries == <<"walk", "random">>

HeaderLine(run) == [kind |-> "header", run |-> run, L |-> 0, series |-> ""]

\* the lines one run writes after the header: one per length and series
RowLines(run) ==
  [i \in 1..(Len(Lengths) * Len(AllSeries)) |->
     [kind |-> "row", run |-> run,
      L |-> Lengths[((i - 1) \div Len(AllSeries)) + 1],
      series |-> AllSeries[((i - 1) % Len(AllSeries)) + 1]]]

\* one script is run at a time: either the collecting loop over a list of
\* submitted units, or run_exp01.py any number of times
InitScripts ==
  /\ \/ /\ \E n \in 1..MaxUnits : iUnits \in [1..n -> UnitKinds]
        /\ iPhase = "collecting"
        /\ iHdr = 1
        /\ xLinked = FALSE
     \/ /\ iUnits = <<>>
        /\ iPhase = "idle"
        /\ iHdr = 0
        /\ xLinked \in BOOLEAN
  /\ iRes = [k \in 1..Len(iUnits) |-> NoTask]
  /\ iPos = 0
  /\ iDead = FALSE
  /\ iCount = 0
  /\ iIters = 0
  /\ iRows = <<>>
  /\ xFile = <<>>
  /\ xRuns = 0
  /\ xErr = "none"
  /\ InitDT([o \in Base |-> Inf])
  /\ InitLinIdle
  /\ InitHarnessIdle
  /\ InitTreeIdle
  /\ InitObjIdle

\* an engine finishes the task of unit k
IppTask(k) ==
  /\ iPhase = "collecting"
  /\ k \in 1..Len(iUnits)
  /\ ~iRes[k].set
  /\ iRes' = [iRes EXCEPT ![k] =
                IF iUnits[k].engine
                THEN [set |-> TRUE, raised |-> TRUE, hvg_times |-> <<>>,
                      merge_times |-> <<>>, params |-> k]
                ELSE LET r == RecordRunTimesParallel(k)
                     IN [set |-> TRUE, raised |-> FALSE, hvg_times |-> r[1],
                         merge_times |-> r[2], params |-> r[3]]]
  /\ UNCHANGED <<iUnits, iPhase, iPos, iDead, iCount, iIters, iHdr, iRows>>
  /\ UNCHANGED <<xLinked, xFile, xRuns, xErr>>
  /\ UNCHANGED dtvars
  /\ UNCHANGED linvars
  /\ UNCHANGED hvars
  /\ UNCHANGED tvars
  /\ UNCHANGED ovars

\* one iteration of the collecting loop: next(results) hands out the next
\* unit's result in submission order, raises when that task failed, and
\* raises StopIteration ever after; the row is written in the else branch
\* and count is advanced in the finally branch
IppCollect ==
  /\ iPhase = "collecting"
  /\ iCount < Len(iUnits)
  /\ iDead \/ iPos >= Len(iUnits) \/ iRes[iPos + 1].set
  /\ IF iDead \/ iPos >= Len(iUnits)
     THEN UNCHANGED <<iPos, iDead, iRows>>
     ELSE IF iRes[iPos + 1].raised
     THEN /\ iDead' = TRUE
          /\ UNCHANGED <<iPos, iRows>>
     ELSE /\ iPos' = iPos + 1
          /\ iRows' = Append(iRows, [params |-> iRes[iPos + 1].params,
                                     hvg_total |-> SumSeq(iRes[iPos + 1].hvg_times),
                                     merge_total |-> SumSeq(iRes[iPos + 1].merge_times)])
          /\ UNCHANGED iDead
  /\ iCount' = iCount + 1
  /\ iIters' = iIters + 1
  /\ UNCHANGED <<iUnits, iPhase, iRes, iHdr>>
  /\ UNCHANGED <<xLinked, xFile, xRuns, xErr>>
  /\ UNCHANGED dtvars
  /\ UNCHANGED linvars
  /\ UNCHANGED hvars
  /\ UNCHANGED tvars
  /\ UNCHANGED ovars

\* the loop ends and the results file is closed
IppClose ==
  /\ iPhase = "collecting"
  /\ ~(iCount < Len(iUnits))
  /\ iPhase' = "done"
  /\ UNCHANGED <<iUnits, iRes, iPos, iDead, iCount, iIters, iHdr, iRows>>
  /\ UNCHANGED <<xLinked, xFile, xRuns, xErr>>
  /\ UNCHANGED dtvars
  /\ UNCHANGED linvars
  /\ UNCHANGED hvars
  /\ UNCHANGED tvars
  /\ UNCHANGED ovars

\* one run of run_exp01.py: the imports, then the file is opened for
\* appending, the header is written, then one row per length and series
RunExp01 ==
  /\ iPhase = "idle"
  /\ xRuns < MaxRuns
  /\ xRuns' = xRuns + 1
  /\ IF xLinked
     THEN /\ xFile' = Append(xFile, HeaderLine(xRuns + 1)) \o RowLines(xRuns + 1)
          /\ xErr' = "none"
     ELSE /\ xFile' = xFile
          /\ xErr' = "ImportError"
  /\ UNCHANGED xLinked
  /\ UNCHANGED <<iUnits, iPhase, iRes, iPos, iDead, iCount, iIters, iHdr, iRows>>
  /\ UNCHANGED dtvars
  /\ UNCHANGED linvars
  /\ UNCHANGED hvars
  /\ UNCHANGED tvars
  /\ UNCHANGED ovars

NextScripts ==
  \/ \E k \in 1..MaxUnits : IppTask(k)
  \/ IppCollect
  \/ IppClose
  \/ RunExp01

SpecScripts == InitScripts /\ [][NextScripts]_vars

\* C19: a unit whose chunk construction raises returns ([-1], [-1],
\* params), one whose merge raises returns (the construction times, [-1],
\* params); the collecting loop makes one iteration per submitted unit,
\* can always go on until then, ends with the results file written, and
\* writes at most one row per unit, whichever units fail.
C19_FailuresBecomeSentinels ==
  /\ \A k \in 1..Len(iUnits) : (iRes[k].set /\ ~iUnits[k].engine) =>
       /\ iRes[k].params = k
       /\ (iUnits[k].buildFail # 0) =>
            (iRes[k].hvg_times = <<-1>> /\ iRes[k].merge_times = <<-1>>)
       /\ (iUnits[k].buildFail = 0 /\ iUnits[k].mergeFail # 0) =>
            /\ iRes[k].hvg_times = [i \in 1..iUnits[k].nch |-> 0]
            /\ iRes[k].merge_times = <<-1>>
  /\ iIters = iCount /\ iCount <= Len(iUnits)
  /\ (iPhase = "collecting" /\ iCount < Len(iUnits)) =>
       (ENABLED IppCollect \/ \E k \in 1..Len(iUnits) : ENABLED IppTask(k))
  /\ (iPhase = "done") => (iIters = Len(iUnits) /\ iHdr = 1)
  /\ \A i \in 1..Len(iRows) : \A j \in 1..Len(iRows) :
       (i # j) => iRows[i].params # iRows[j].params

\* C19 witness: the run is over, with a unit that failed while building, a
\* unit that failed while merging, a task that failed on its engine, and a
\* row written.
C19_Witness ==
  /\ iPhase = "done"
  /\ \E k \in 1..Len(iUnits) : iUnits[k].buildFail # 0 /\ iRes[k].set
  /\ \E k \in 1..Len(iUnits) : iUnits[k].mergeFail # 0 /\ iRes[k].set
  /\ \E k \in 1..Len(iUnits) : iUnits[k].engine
  /\ Len(iRows) >= 1

\* C20: after any number of runs of run_exp01.py, results_exp01.txt holds
\* the header line once, as its first line, followed by the rows of all the
\* runs in order, none removed.
C20_HeaderOnceThenAllRows ==
  (xRuns >= 1) =>
    /\ Len(xFile) = 1 + xRuns * Len(RowLines(1))
    /\ xFile[1].kind = "header"
    /\ \A i \in 2..Len(xFile) : xFile[i].kind = "row"
    /\ \A i \in 2..(Len(xFile) - 1) : xFile[i].run <= xFile[i + 1].run
    /\ \A r \in 1..xRuns : \A i \in 1..Len(RowLines(r)) :
         \E n \in 2..Len(xFile) : xFile[n] = RowLines(r)[i]

\* ------------------------------------------------------------------------
\* The streaming object linear_hvg.HVG.  vis_f holds [v, bottom] with bottom
\* None (<<>>) or a height (<<b>>); vis_p holds [v, max_val before v].
\* selfRead is history: for each edge of E, the bottom read from vis_f[-1]
\* when the edge was made, before any default was applied.
\* ------------------------------------------------------------------------
\* the values fed to the object
ObjVals == 0..MaxVal

\* bottom or self.finite_lower_bound: None and 0 are both false
Or(bottom, default) ==
  IF bottom = <<>> \/ bottom[1] = 0 THEN default ELSE bottom[1]

\* the while loop of add_one for the new vertex v
RECURSIVE ObjScan(_, _, _, _, _)
ObjScan(X, v, vis_f, E, read) ==
  IF vis_f = <<>> THEN [vis_f |-> vis_f, E |-> E, read |-> read]
  ELSE
    LET u == Last(vis_f)[1]
        bottom == Or(Last(vis_f)[2], FiniteLowerBound)
        read2 == Append(read, Last(vis_f)[2])
    IN IF X[u + 1] <= X[v + 1]
       THEN LET E2 == Append(E, <<u, v, X[u + 1] - bottom>>)
            IN IF X[u + 1] = X[v + 1]
               THEN [vis_f |-> Front(vis_f), E |-> E2, read |-> read2]
               ELSE ObjScan(X, v, Front(vis_f), E2, read2)
       ELSE [vis_f |-> Append(Front(vis_f), <<u, <<X[v + 1]>>>>),
             E |-> Append(E, <<u, v, X[v + 1] - bottom>>),
             read |-> read2]

\* add_one(x) on the object st
ObjAddOne(st, x) ==
  LET v == Len(st.X)
      X == Append(st.X, x)
      isMax == x > st.max_val
      sc == ObjScan(X, v, st.vis_f, st.E, st.read)
  IN [X |-> X,
      E |-> sc.E,
      vis_p |-> IF isMax THEN Append(st.vis_p, <<v, st.max_val>>) ELSE st.vis_p,
      vis_f |-> Append(sc.vis_f, <<v, <<>>>>),
      max_val |-> IF isMax THEN x ELSE st.max_val,
      read |-> sc.read]

\* add_batch(batch) on the object st
RECURSIVE ObjAddBatch(_, _)
ObjAddBatch(st, batch) ==
  IF batch = <<>> THEN st ELSE ObjAddBatch(ObjAddOne(st, batch[1]), Tail(batch))

Self ==
  [X |-> selfX, E |-> selfE, vis_p |-> selfVisP, vis_f |-> selfVisF,
   max_val |-> selfMaxVal, read |-> selfRead]

\* the object is assigned the fields of st
SelfBecomes(st) ==
  /\ selfX' = st.X
  /\ selfE' = st.E
  /\ selfVisP' = st.vis_p
  /\ selfVisF' = st.vis_f
  /\ selfMaxVal' = st.max_val
  /\ selfRead' = st.read

\* HVG(), before any value
InitObj ==
  /\ selfX = <<>>
  /\ selfE = <<>>
  /\ selfVisP = <<>>
  /\ selfVisF = <<>>
  /\ selfMaxVal = NegInf
  /\ selfRead = <<>>
  /\ InitDT([o \in Base |-> Inf])
  /\ InitLinIdle
  /\ InitHarnessIdle
  /\ InitTreeIdle
  /\ InitScriptsIdle

ObjAddOneCall(x) ==
  /\ Len(selfX) < MaxLen
  /\ SelfBecomes(ObjAddOne(Self, x))
  /\ UNCHANGED dtvars
  /\ UNCHANGED linvars
  /\ UNCHANGED hvars
  /\ UNCHANGED tvars
  /\ UNCHANGED svars

ObjAddBatchCall(batch) ==
  /\ Len(selfX) + Len(batch) <= MaxLen
  /\ SelfBecomes(ObjAddBatch(Self, batch))
  /\ UNCHANGED dtvars
  /\ UNCHANGED linvars
  /\ UNCHANGED hvars
  /\ UNCHANGED tvars
  /\ UNCHANGED svars

\* merge(other): other is an object that was fed the values otherX
ObjMergeCall(otherX) ==
  /\ Len(selfX) + Len(otherX) <= MaxLen
  /\ SelfBecomes(ObjAddBatch(Self, ObjAddBatch(
       [X |-> <<>>, E |-> <<>>, vis_p |-> <<>>, vis_f |-> <<>>,
        max_val |-> NegInf, read |-> <<>>], otherX).X))
  /\ UNCHANGED dtvars
  /\ UNCHANGED linvars
  /\ UNCHANGED hvars
  /\ UNCHANGED tvars
  /\ UNCHANGED svars

NextObj ==
  \/ \E x \in ObjVals : ObjAddOneCall(x)
  \/ \E batch \in [1..2 -> ObjVals] : ObjAddBatchCall(batch)
  \/ \E otherX \in [1..2 -> ObjVals] : ObjMergeCall(otherX)

SpecObj == InitObj /\ [][NextObj]_vars

\* C24: every edge (u,v) of the object weighs min(X[u],X[v]) minus the
\* blocking height recorded for u when it has one, whatever that height is,
\* and min(X[u],X[v]) minus finite_lower_bound only when none was recorded.
C24_WeightUsesRecordedHeight ==
  \A i \in 1..Len(selfE) :
    LET u == selfE[i][1]
        v == selfE[i][2]
        lo == Min(selfX[u + 1], selfX[v + 1])
    IN selfE[i][3] = lo - (IF selfRead[i] = <<>> THEN FiniteLowerBound
                           ELSE selfRead[i][1])

\* C24, heights other than zero: the weight is taken from the recorded
\* height whenever that height is not 0.
C24_NonZeroHeightsAreUsed ==
  \A i \in 1..Len(selfE) :
    LET u == selfE[i][1]
        v == selfE[i][2]
        lo == Min(selfX[u + 1], selfX[v + 1])
    IN (selfRead[i] = <<>> \/ selfRead[i][1] # 0) =>
         selfE[i][3] = lo - (IF selfRead[i] = <<>> THEN FiniteLowerBound
                             ELSE selfRead[i][1])

====
